---- MODULE Spec2Model ----
(***************************************************************************)
(* A model of snipe's terminal front end and input dispatcher.             *)
(*                                                                         *)
(*   Spec     the window stack of TTYFrontend (src/snipe/ttyfe.py):         *)
(*            split_window, delete_window, popup_window, popdown_window,   *)
(*            switch_window and doresize acting on the list of             *)
(*            TTYRenderer regions, the focus index and the popup stack.    *)
(*   SpecPrompt  the same calls together with Window.read_string           *)
(*            (src/snipe/context.py): prompts pushed as popups, their      *)
(*            result slots, and the actions waiting on them.               *)
(*   SpecKey  the input dispatcher Window.input_char                       *)
(*            (src/snipe/context.py) walking the window's keymap, as       *)
(*            TTYFrontend.readable drives it, and Messager's cursor.       *)
(*   SpecSplit  Keymap.split (src/snipe/context.py) applied to             *)
(*            sequence-spec strings, level by level.                       *)
(*   SpecMap  Keymap lookup, insertion, deletion and copy on a heap of     *)
(*            Keymap objects.                                              *)
(*   SpecBind the same operations given strings with untypable and         *)
(*            malformed keystrokes.                                        *)
(*   SpecLoc  Location.shift (src/snipe/ttyfe.py) on a content stream of   *)
(*            items with given line counts.                                *)
(*   SpecRender  TTYRenderer.redisplay (src/snipe/ttyfe.py): painting from  *)
(*            head, and the reframe cascade, as the cursor moves.          *)
(*   SpecLine TTYRenderer.doline (src/snipe/ttyfe.py) applied to a text,   *)
(*            a width, a carried-over remaining width and a set of tags.   *)
(*   SpecFill Roost.backfill and the do_backfill tasks it starts           *)
(*            (src/snipe/roost.py), interleaved at their suspension points.*)
(*                                                                         *)
(* Indices are kept as Python keeps them (0-based, negative indices count  *)
(* from the end); TLA+ sequences are 1-based, PyPos converts.              *)
(***************************************************************************)
EXTENDS Integers, Sequences, FiniteSets, TLC

\* Largest terminal height (rows) the model lets curses report.
MaxY == 4
\* Number of Window objects ever constructed (the initial one included).
MaxWin == 3
\* Largest height a caller passes to popup_window.
MaxPopH == 2
\* Number of keystrokes fed to input_char.
MaxKeys == 5
\* Number of items the content provider holds.
MaxItems == 3
\* Largest number of modifier names in front of a key.
MaxMods == 2
\* Number of operations made on the Keymaps.
MaxOps == 3
\* Largest number of screen lines one content item renders to.
MaxLines == 3
\* Largest distance, in lines, a Location is shifted by.
MaxDelta == 4
\* Largest number of characters in a text given to doline.
MaxText == 3
\* Largest window width given to doline, besides one tab stop.
MaxWidth == 3
\* Number of do_backfill tasks ever started.
MaxTasks == 3
\* Largest number of messages one fetch returns.
MaxChunk == 2
\* Number of messages that arrive while the program runs.
MaxNew == 2

VARIABLES
    maxy,           \* TTYFrontend.maxy: terminal height
    windows,        \* TTYFrontend.windows: sequence of TTYRenderer records
    active,         \* TTYFrontend.active: focus index (Python index)
    popstack,       \* TTYFrontend.popstack: sequence of (window, height)
    destroyed,      \* per Window: how often its destroy callback ran
    nextWin,        \* identity of the next Window object to be constructed
    last,           \* history: the last front-end call and how it ended
    scen,           \* history: split/delete and popup/popdown scenarios
    futures,        \* per Window: the Future f of the read_string behind it
    settled,        \* per Window: how often f was given a result or exception
    received,       \* per Window: what the action in read_string got
    first,          \* history, per Window: completion or teardown came first
    active_keymap,  \* Window.active_keymap
    whines,         \* number of Window.whine calls so far
    invoked,        \* number of bound actions called so far
    tasks,          \* asyncio Tasks of suspending actions not yet finished
    nkeys,          \* keystrokes processed so far
    klast,          \* history: the last keystroke and what input_char did
    cursor,         \* Messager.cursor: the item the cursor is on
    redisplays,     \* number of TTYFrontend.redisplay calls made by readable
    tlast,          \* history: how the Task that finished last ended
    keyseqspec,     \* the sequence-spec string Keymap.split is given next
    path,           \* the keys split has returned so far
    sres,           \* history: the last call of split and its result
    heap,           \* the Keymap objects: heap[i] is the dict of object i
    lcopy,          \* the object l = Keymap(k), 0 before the copy is made
    nops,           \* Keymap operations made so far
    mlast,          \* history: the last Keymap operation and how it ended
    chunklines,     \* chunksize of each item of the content stream, in order
    loc,            \* the Location shift is called on next
    lhist,          \* history: the last two calls of Location.shift
    wcursor,        \* Window.cursor of the window the TTYRenderer shows
    rheight,        \* TTYRenderer.height of that renderer
    head,           \* TTYRenderer.head: a Location, or None
    sill,           \* TTYRenderer.sill: a Location, or None
    rlast,          \* history: the last call of redisplay and its paints
    dargs,          \* the arguments doline is given: s, width, remaining, tags
    dres,           \* history: what doline returned or raised
    backfilling,    \* Roost.backfilling: the guard
    loaded,         \* Roost.loaded: the server has no older messages
    messages,       \* Roost.messages: the messages held, oldest first
    btasks,         \* per do_backfill task: where it is suspended
    fetches,        \* number of calls of self.r.messages so far
    blast,          \* history: the last step of a do_backfill task
    cont            \* history, per task: a continuation, alone or not

wvars == <<maxy, windows, active, popstack, destroyed, nextWin, last, scen,
           futures, settled, received, first>>
kvars == <<active_keymap, whines, invoked, tasks, nkeys, klast,
           cursor, redisplays, tlast>>
vars == <<maxy, windows, active, popstack, destroyed, nextWin, last, scen,
          futures, settled, received, first,
          active_keymap, whines, invoked, tasks, nkeys, klast,
          cursor, redisplays, tlast, keyseqspec, path, sres,
          heap, lcopy, nops, mlast,
          chunklines, loc, lhist,
          wcursor, rheight, head, sill, rlast,
          dargs, dres,
          backfilling, loaded, messages, btasks, fetches, blast, cont>>
svars == <<keyseqspec, path, sres>>
mvars == <<heap, lcopy, nops, mlast>>
\* what the front end and the dispatcher leave alone
lvars == <<chunklines, loc, lhist>>
\* what the Keymap leaves alone besides the front end and the dispatcher
rvars == <<wcursor, rheight, head, sill, rlast>>
dvars == <<dargs, dres>>
bvars == <<backfilling, loaded, messages, btasks, fetches, blast, cont>>
xvars == <<lvars, rvars, dvars, bvars>>
\* what the front end and the dispatcher leave alone
ovars == <<svars, mvars, xvars>>

WinIds == 1..MaxWin

Max(a, b) == IF a >= b THEN a ELSE b

----------------------------------------------------------------------------
(* Python list semantics used by the front end *)

\* list[i] is defined for -n <= i < n
PyIndexOK(i, n) == -n <= i /\ i < n

\* the 1-based position list[i] denotes
PyPos(i, n) == IF i < 0 THEN n + i + 1 ELSE i + 1

\* a slice bound is clamped into 0..n
SliceBound(i, n) ==
    IF i < 0 THEN Max(n + i, 0) ELSE IF i > n THEN n ELSE i

\* list[lo:hi] = new
SliceAssign(s, lo, hi, new) ==
    LET a == SliceBound(lo, Len(s))
        b == Max(SliceBound(hi, Len(s)), a)
    IN  SubSeq(s, 1, a) \o new \o SubSeq(s, b + 1, Len(s))

\* del list[p] (p a 1-based position)
RemoveAt(s, p) == SubSeq(s, 1, p - 1) \o SubSeq(s, p + 1, Len(s))

Front(s) == SubSeq(s, 1, Len(s) - 1)

RECURSIVE FirstEqual(_, _, _)
FirstEqual(s, x, i) ==
    IF i > Len(s) THEN 0
    ELSE IF s[i] = x THEN i ELSE FirstEqual(s, x, i + 1)

\* with contextlib.suppress(ValueError): list.remove(x)
RemoveFirst(s, x) ==
    LET i == FirstEqual(s, x, 1) IN IF i = 0 THEN s ELSE RemoveAt(s, i)

----------------------------------------------------------------------------
(* TTYRenderer and the curses sub-window it owns *)

TTYRenderer(y, h, w) == [y |-> y, height |-> h, window |-> w]

PopEntry(w, h) == [window |-> w, height |-> h]

\* stdscr.subwin(h, width, y, 0) yields a window (it raises curses.error
\* otherwise): the region lies inside the screen of my rows; h = 0 asks for
\* "the rest of the screen" and so needs at least one row below y.
SubwinOK(y, h, my) == y >= 0 /\ h >= 0 /\ y < my /\ y + h <= my

Destroy(d, w) == [d EXCEPT ![w] = @ + 1]

\* the outcome of a call: the fields it leaves behind and whether it returned
Outcome(ws, act, ps, d, ok) ==
    [windows |-> ws, active |-> act, popstack |-> ps, destroyed |-> d, ok |-> ok]

Raised == Outcome(windows, active, popstack, destroyed, FALSE)

----------------------------------------------------------------------------
(* TTYFrontend.split_window *)

\* nh = r.height // 2
SplitHeight(h) == h \div 2

SplitResult(new) ==
    LET n == Len(windows) IN
    IF ~PyIndexOK(active, n) THEN Raised                 \* IndexError
    ELSE
      LET r  == windows[PyPos(active, n)]
          nh == SplitHeight(r.height)
      IN  IF nh = 0 THEN Raised                          \* 'too small to split'
          ELSE IF ~(SubwinOK(r.y, nh, maxy)
                    /\ SubwinOK(r.y + nh, r.height - nh, maxy))
          THEN Raised                                    \* curses.error
          ELSE Outcome(
                 SliceAssign(windows, active, active + 1,
                     << TTYRenderer(r.y, nh, r.window),
                        TTYRenderer(r.y + nh, r.height - nh, new) >>),
                 active, popstack, destroyed, TRUE)

----------------------------------------------------------------------------
(* TTYFrontend.delete_window *)

\* mutant: the guard tests for an empty list
OnlyWindowBug(ws) == Len(ws) = 0

\* if len(self.windows) == 1: raise
OnlyWindow(ws) == Len(ws) = 1

\* if self.popstack and self.popstack[-1][0] is victim.window: self.popstack.pop()
DeletePop(ps, w) ==
    IF ps # <<>> /\ ps[Len(ps)].window = w THEN Front(ps) ELSE ps

\* mutant: the victim's rows are not handed to the neighbour
MergedHeightBug(victim, u) == u.height

\* the height of the Viewport that absorbs the victim
MergedHeight(victim, u) == victim.height + u.height

DeleteResult(n) ==
    LET len == Len(windows) IN
    IF OnlyWindow(windows) THEN Raised      \* 'attempt to delete only window'
    ELSE IF ~PyIndexOK(n, len) THEN Raised                \* IndexError
    ELSE
      LET victim == windows[PyPos(n, len)]
          ws1    == RemoveAt(windows, PyPos(n, len))
          ps1    == DeletePop(popstack, victim.window)
          d1     == Destroy(destroyed, victim.window)
          len1   == Len(ws1)
          broken == Outcome(ws1, active, ps1, d1, FALSE)
      IN  IF n = 0 THEN
            IF len1 = 0 THEN broken                       \* IndexError
            ELSE
              LET u == ws1[1] IN
              IF ~SubwinOK(0, MergedHeight(victim, u), maxy) THEN broken
              ELSE Outcome(
                     [ws1 EXCEPT ![1] =
                         TTYRenderer(0, MergedHeight(victim, u), u.window)],
                     active, ps1, d1, TRUE)
          ELSE
            IF ~PyIndexOK(n - 1, len1) THEN broken        \* IndexError
            ELSE
              LET q == PyPos(n - 1, len1)
                  u == ws1[q]
                  ws2 == [ws1 EXCEPT ![q] =
                            TTYRenderer(u.y, MergedHeight(victim, u), u.window)]
              IN  IF ~SubwinOK(u.y, MergedHeight(victim, u), maxy) THEN broken
                  ELSE IF active = n
                  THEN Outcome(ws2, active - 1, ps1, d1,
                               PyIndexOK(active - 1, len1))   \* .focus()
                  ELSE Outcome(ws2, active, ps1, d1, TRUE)

----------------------------------------------------------------------------
(* TTYFrontend.popup_window *)

\* the bottom Viewport already is the top of the popup stack
IsTopPopup(ps, r) == ps # <<>> /\ r.window = ps[Len(ps)].window

\* the height the covered bottom Viewport keeps
ShrunkHeight(r, height) == r.height - height

\* mutant: the entry records the default height, not the one passed
PushPopupBug(ps, new, height) == Append(ps, PopEntry(new, 1))

\* self.popstack.append((new, height))
PushPopup(ps, new, height) == Append(ps, PopEntry(new, height))

PopupResult(new, height, select) ==
    LET len == Len(windows) IN
    IF len = 0 THEN Raised                                \* IndexError
    ELSE
      LET r == windows[len] IN
      IF r.height <= height /\ popstack = <<>> THEN Raised   \* IndexError
      ELSE
        LET ps1 == IF r.height <= height
                      /\ r.window # popstack[Len(popstack)].window
                   THEN Append(popstack, PopEntry(r.window, r.height))
                   ELSE popstack
        IN
        IF IsTopPopup(ps1, r) THEN
          LET ps2 == [ps1 EXCEPT ![Len(ps1)] = PopEntry(r.window, r.height)] IN
          IF ~SubwinOK(r.y, r.height, maxy)
          THEN Outcome(windows, active, ps2, destroyed, FALSE)
          ELSE
            LET ws1 == [windows EXCEPT ![len] = TTYRenderer(r.y, r.height, new)]
            IN  Outcome(ws1, IF select THEN Len(ws1) - 1 ELSE active,
                        PushPopup(ps2, new, height), destroyed, TRUE)
        ELSE
          IF ~SubwinOK(r.y, ShrunkHeight(r, height), maxy)
          THEN Outcome(windows, active, ps1, destroyed, FALSE)
          ELSE
            LET ws1 == [windows EXCEPT ![len] =
                          TTYRenderer(r.y, ShrunkHeight(r, height), r.window)]
            IN
            IF ~SubwinOK(r.y + r.height - height, height, maxy)
            THEN Outcome(ws1, active, ps1, destroyed, FALSE)
            ELSE
              LET ws2 == Append(ws1,
                           TTYRenderer(r.y + r.height - height, height, new))
              IN  Outcome(ws2, IF select THEN Len(ws2) - 1 ELSE active,
                          PushPopup(ps1, new, height), destroyed, TRUE)

----------------------------------------------------------------------------
(* TTYFrontend.popdown_window *)

\* mutant: the dismissed popup's rows are not folded back
RestoredHeightBug(adj, victim) == adj.height

\* the height the neighbour gets back when the popup stack is empty
RestoredHeight(adj, victim) == adj.height + victim.height

\* if self.active >= len(self.windows): self.active = len(self.windows) - 1
PopdownFocus(act, ws) == IF act >= Len(ws) THEN Len(ws) - 1 ELSE act

PopdownResult ==
    IF popstack = <<>> THEN Raised                        \* IndexError
    ELSE
      LET top == popstack[Len(popstack)]
          ps1 == Front(popstack)
          d1  == Destroy(destroyed, top.window)
      IN
      IF windows = <<>> THEN Outcome(windows, active, ps1, d1, FALSE)
      ELSE
        LET victim == windows[Len(windows)]
            ws1    == Front(windows)
            broken == Outcome(ws1, active, ps1, d1, FALSE)
        IN
        IF ws1 = <<>> THEN broken                         \* IndexError
        ELSE
          LET adj == ws1[Len(ws1)] IN
          IF ps1 # <<>> THEN
            LET nt      == ps1[Len(ps1)]
                dheight == nt.height - victim.height
            IN
            IF ~(SubwinOK(adj.y, adj.height - dheight, maxy)
                 /\ SubwinOK(victim.y - dheight, nt.height, maxy))
            THEN broken
            ELSE
              LET ws2 == Front(ws1) \o
                     << TTYRenderer(adj.y, adj.height - dheight, adj.window),
                        TTYRenderer(victim.y - dheight, nt.height, nt.window) >>
              IN  Outcome(ws2, PopdownFocus(active, ws2), ps1, d1, TRUE)
          ELSE
            IF ~SubwinOK(adj.y, RestoredHeight(adj, victim), maxy) THEN broken
            ELSE
              LET ws2 == [ws1 EXCEPT ![Len(ws1)] =
                     TTYRenderer(adj.y, RestoredHeight(adj, victim), adj.window)]
              IN  Outcome(ws2, PopdownFocus(active, ws2), ps1, d1, TRUE)

----------------------------------------------------------------------------
(* TTYFrontend.doresize *)

\* int(victim.height * (self.maxy / oldy)): the float product truncates to
\* the integer quotient for every height and terminal size up to 8 rows
\* (beyond that the two differ for some inputs, e.g. 11 * (15 / 11) gives 14)
ScaleHeight(h, newy, oldy) == (h * newy) \div oldy

\* newheight = max(1, ...)
NewHeight(h, newy, oldy) == Max(1, ScaleHeight(h, newy, oldy))

\* self.popstack.remove(victim), victim a TTYRenderer
RECURSIVE RemoveOrphans(_, _)
RemoveOrphans(ps, orphans) ==
    IF orphans = <<>> THEN ps
    ELSE RemoveOrphans(RemoveFirst(ps, Head(orphans)), Tail(orphans))

\* victim.window.destroy() for every orphan
RECURSIVE DestroyOrphans(_, _)
DestroyOrphans(d, orphans) ==
    IF orphans = <<>> THEN d
    ELSE DestroyOrphans(Destroy(d, Head(orphans).window), Tail(orphans))

\* rows handed out to the Viewports at positions i..Len(ws), from the bottom
RECURSIVE RowsFrom(_, _, _, _)
RowsFrom(ws, i, newy, oldy) ==
    IF i > Len(ws) THEN 0
    ELSE NewHeight(ws[i].height, newy, oldy) + RowsFrom(ws, i + 1, newy, oldy)

\* the windows that keep a Viewport when only newy rows are left
Survivors(ws, newy) ==
    IF newy < Len(ws) THEN SubSeq(ws, Len(ws) - newy + 1, Len(ws)) ELSE ws

ResizeResult(newy) ==
    LET len     == Len(windows)
        oldy    == maxy
        evict   == newy < len
        act1    == IF evict THEN active - (len - newy) ELSE active
        orphans == IF evict THEN SubSeq(windows, 1, len - newy) ELSE <<>>
        ws1     == Survivors(windows, newy)
        ps1     == RemoveOrphans(popstack, orphans)
        d1      == DestroyOrphans(destroyed, orphans)
        n1      == Len(ws1)
        y(i)    == newy - RowsFrom(ws1, i, newy, oldy)
        broken  == Outcome(ws1, act1, ps1, d1, FALSE)
    IN  IF n1 = 0 THEN broken                             \* IndexError
        ELSE IF ~(/\ \A i \in 2..n1 :
                       SubwinOK(y(i), NewHeight(ws1[i].height, newy, oldy), newy)
                  /\ SubwinOK(0, y(2), newy))
        THEN broken                                       \* curses.error
        ELSE Outcome(
               [i \in 1..n1 |->
                  IF i = 1 THEN TTYRenderer(0, y(2), ws1[1].window)
                  ELSE TTYRenderer(y(i), NewHeight(ws1[i].height, newy, oldy),
                                   ws1[i].window)],
               act1, ps1, d1, TRUE)

----------------------------------------------------------------------------
(* TTYFrontend.switch_window *)

SwitchResult(adj) ==
    IF Len(windows) = 0 THEN Raised                       \* ZeroDivisionError
    ELSE Outcome(windows, (active + adj) % Len(windows),
                 popstack, destroyed, TRUE)

----------------------------------------------------------------------------
(* History of the calls, for stating the scenario properties *)

\* the regions partition the rows 0..my-1 from the top
Partition(ws, my) ==
    /\ ws # <<>>
    /\ ws[1].y = 0
    /\ \A i \in 2..Len(ws) : ws[i].y = ws[i-1].y + ws[i-1].height
    /\ ws[Len(ws)].y + ws[Len(ws)].height = my

NoScen ==
    [kind |-> "none", windows |-> <<>>, active |-> 0, ups |-> 0, downs |-> 0,
     fit |-> FALSE, ok |-> FALSE, healthy |-> FALSE]

\* a call: its name, whether it returned, the Window and height passed to it
Call(op, ok, win, h) == [op |-> op, ok |-> ok, win |-> win, h |-> h]

SplitScen(ok) ==
    IF /\ 0 <= active /\ active < Len(windows)
       /\ windows[active + 1].height >= 2
    THEN [NoScen EXCEPT !.kind = "split", !.windows = windows,
                        !.active = active, !.ok = ok,
                        !.healthy = Partition(windows, maxy)]
    ELSE NoScen

DeleteScen(n, ok) ==
    IF scen.kind = "split" /\ scen.ok /\ n = scen.active + 1
    THEN [scen EXCEPT !.kind = "splitdel", !.ok = ok]
    ELSE NoScen

PopupScen(height, ok) ==
    IF popstack = <<>> /\ windows # <<>>
    THEN [NoScen EXCEPT !.kind = "popup", !.windows = windows, !.ups = 1,
                        !.fit = (height < windows[Len(windows)].height),
                        !.ok = ok, !.healthy = Partition(windows, maxy)]
    ELSE IF scen.kind = "popup" /\ scen.downs = 0
    THEN [scen EXCEPT !.ups = @ + 1,
              !.fit = @ /\ height < scen.windows[Len(scen.windows)].height,
              !.ok = @ /\ ok]
    ELSE NoScen

PopdownScen(ok) ==
    IF scen.kind = "popup" /\ scen.downs < scen.ups
    THEN [scen EXCEPT !.downs = @ + 1, !.ok = @ /\ ok]
    ELSE NoScen

----------------------------------------------------------------------------
(* The Future of a read_string prompt and its destroy callback *)

\* f is "none" for a Window that is no prompt, "pending" from
\* asyncio.Future() on, "result" after set_result, "aborted" after
\* set_exception(Exception('Operation Aborted'))

\* mutant: the callback does not look at the Future
NotDoneBug(f) == TRUE

\* if not f.done()
NotDone(f) == f = "pending"

\* destroy_callback, run once for each destroy() a call made on Window w
\* (d is the destroy count the call leaves): the Future afterwards
destroy_callback(futs, d, w) ==
    IF futs[w] # "none" /\ d[w] > destroyed[w] /\ NotDone(futs[w])
    THEN "aborted" ELSE futs[w]

\* how many of these runs reached f.set_exception
Aborts(futs, d, w) ==
    IF futs[w] = "none" \/ ~NotDone(futs[w]) THEN 0
    ELSE IF NotDone("aborted") THEN d[w] - destroyed[w]
    ELSE IF d[w] > destroyed[w] THEN 1 ELSE 0

\* the destroy callbacks of a call that leaves the destroy counts d, on the
\* Futures futs with the counts setl and the history frst
Teardown(d, futs, setl, frst) ==
    /\ futures' = [w \in WinIds |-> destroy_callback(futs, d, w)]
    /\ settled' = [w \in WinIds |-> setl[w] + Aborts(futs, d, w)]
    /\ first' = [w \in WinIds |->
                   IF frst[w] = "none" /\ futs[w] # "none" /\ d[w] > destroyed[w]
                   THEN "torn" ELSE frst[w]]

----------------------------------------------------------------------------
(* The front end's calls as actions *)

Apply(res, call, sc) ==
    /\ windows' = res.windows
    /\ active' = res.active
    /\ popstack' = res.popstack
    /\ destroyed' = res.destroyed
    /\ last' = call
    /\ scen' = sc
    /\ Teardown(res.destroyed, futures, settled, first)
    /\ UNCHANGED received
    /\ UNCHANGED kvars
    /\ UNCHANGED ovars

\* Every caller passes a Window it has just constructed. A Window the call
\* did not keep (it raised first) is garbage: its identity is used again.
Kept(res, new) ==
    \/ \E i \in 1..Len(res.windows) : res.windows[i].window = new
    \/ \E i \in 1..Len(res.popstack) : res.popstack[i].window = new

Fresh(res, new) == IF Kept(res, new) THEN nextWin + 1 ELSE nextWin

split_window(new) ==
    /\ new = nextWin /\ nextWin <= MaxWin
    /\ maxy' = maxy
    /\ LET res == SplitResult(new)
       IN  /\ nextWin' = Fresh(res, new)
           /\ Apply(res, Call("split", res.ok, new, 0), SplitScen(res.ok))

delete_window(n) ==
    /\ UNCHANGED <<nextWin, maxy>>
    /\ LET res == DeleteResult(n)
       IN  Apply(res, Call("delete", res.ok, 0, 0), DeleteScen(n, res.ok))

popup_window(new, height, select) ==
    /\ new = nextWin /\ nextWin <= MaxWin
    /\ maxy' = maxy
    /\ LET res == PopupResult(new, height, select)
       IN  /\ nextWin' = Fresh(res, new)
           /\ Apply(res, Call("popup", res.ok, new, height),
                    PopupScen(height, res.ok))

popdown_window ==
    /\ UNCHANGED <<nextWin, maxy>>
    /\ LET res == PopdownResult
       IN  Apply(res, Call("popdown", res.ok, 0, 0), PopdownScen(res.ok))

doresize(newy) ==
    /\ UNCHANGED nextWin
    /\ maxy' = newy
    /\ LET res == ResizeResult(newy)
       IN  Apply(res, Call("resize", res.ok, 0, 0), NoScen)

switch_window(adj) ==
    /\ UNCHANGED <<nextWin, maxy>>
    /\ LET res == SwitchResult(adj)
       IN  Apply(res, Call("switch", res.ok, 0, 0),
                 IF scen.kind = "popup" THEN scen ELSE NoScen)

\* Window.read_string(prompt, content, height) up to its yield from f:
\* the Future, the prompt Window with its two callbacks, popup_window.
\* When popup_window raises, so does read_string, and nothing waits on f.
read_string(height) ==
    /\ nextWin <= MaxWin
    /\ maxy' = maxy
    /\ LET new == nextWin
           res == PopupResult(new, height, TRUE)
       IN  /\ nextWin' = Fresh(res, new)
           /\ windows' = res.windows
           /\ active' = res.active
           /\ popstack' = res.popstack
           /\ destroyed' = res.destroyed
           /\ last' = Call("read_string", res.ok, new, height)
           /\ scen' = PopupScen(height, res.ok)
           /\ futures' = IF Kept(res, new)
                         THEN [futures EXCEPT ![new] = "pending"] ELSE futures
           /\ received' = IF Kept(res, new)
                          THEN [received EXCEPT ![new] =
                                  IF res.ok THEN "waiting" ELSE "raised"]
                          ELSE received
    /\ UNCHANGED <<settled, first>>
    /\ UNCHANGED kvars
    /\ UNCHANGED ovars

\* the Window readable gives the keystrokes to
Focused(w) ==
    /\ PyIndexOK(active, Len(windows))
    /\ windows[PyPos(active, Len(windows))].window = w

\* done_callback(result), called by the focused prompt Window w when the
\* text is entered: f.set_result(result), which raises InvalidStateError on
\* a Future that is done, then self.fe.popdown_window()
done_callback(w) ==
    /\ futures[w] # "none" /\ Focused(w)
    /\ UNCHANGED <<nextWin, maxy, received>>
    /\ IF futures[w] = "pending"
       THEN LET res == PopdownResult
            IN  /\ windows' = res.windows
                /\ active' = res.active
                /\ popstack' = res.popstack
                /\ destroyed' = res.destroyed
                /\ last' = Call("done_callback", res.ok, w, 0)
                /\ scen' = PopdownScen(res.ok)
                /\ Teardown(res.destroyed,
                            [futures EXCEPT ![w] = "result"],
                            [settled EXCEPT ![w] = @ + 1],
                            [first EXCEPT ![w] =
                                IF @ = "none" THEN "completed" ELSE @])
       ELSE /\ last' = Call("done_callback", FALSE, w, 0)
            /\ scen' = NoScen
            /\ UNCHANGED <<windows, active, popstack, destroyed,
                           futures, settled, first>>
    /\ UNCHANGED kvars
    /\ UNCHANGED ovars

\* the action suspended in yield from f is resumed once f is done:
\* return f.result() gives it the text or raises the exception set
read_string_resume(w) ==
    /\ received[w] = "waiting"
    /\ futures[w] \in {"result", "aborted"}
    /\ received' = [received EXCEPT ![w] =
                       IF futures[w] = "result" THEN "text" ELSE "aborted"]
    /\ last' = Call("resume", futures[w] = "result", w, 0)
    /\ UNCHANGED <<maxy, windows, active, popstack, destroyed, nextWin, scen,
                   futures, settled, first>>
    /\ UNCHANGED kvars
    /\ UNCHANGED ovars

\* the indices delete_window is called with: any Viewport, or the focus
\* (delete_current_window)
DeleteArgs == (0 .. Len(windows) - 1) \cup {active}

----------------------------------------------------------------------------
(* Window.input_char and the keymap it walks *)

\* what a keymap slot holds: a bound action, a sub-map, or (lookup only) None
Leaf(name) == [kind |-> "action", name |-> name]
Submap(m)  == [kind |-> "keymap", map |-> m]
NoneValue  == [kind |-> "none"]

\* the keystrokes fed to the window; "q" is bound nowhere
Keys == {"^X", "^Z", "^C", "2", "t", "q", "n", "p"}

\* Window.__init__: self.keymap, from the @bind declarations of Window
\*   'Control-X Control-C' quit, 'Control-Z' stop,
\*   'Control-X 2' split_window, 'Control-X t' test_ui
\* and of Messager, the window Context hands to initial()
\*   'n' next_message, 'p' prev_message
WindowKeymap ==
    Submap(  ("^Z" :> Leaf("stop"))
          @@ ("n"  :> Leaf("next_message"))
          @@ ("p"  :> Leaf("prev_message"))
          @@ ("^X" :> Submap(  ("^C" :> Leaf("quit"))
                            @@ ("2"  :> Leaf("split_window"))
                            @@ ("t"  :> Leaf("test_ui")))))

\* try: v = self.active_keymap[k]  except KeyError: v = None
Lookup(km, k) == IF k \in DOMAIN km.map THEN km.map[k] ELSE NoneValue

\* callable(v)
Callable(v) == v.kind = "action"

\* how calling a bound action can end: it returns, it raises, or it returns a
\* coroutine (test_ui is a generator function; split_window raises
\* 'too small to split' on a one-row Viewport)
ActionOutcomes(name) ==
    CASE name = "split_window" -> {"ok", "raise"}
      [] name = "test_ui"      -> {"coro"}
      [] OTHER                 -> {"ok"}

\* the outcomes to choose from when k is typed
OutcomesFor(k) ==
    IF active_keymap.kind = "keymap" /\ Callable(Lookup(active_keymap, k))
    THEN ActionOutcomes(Lookup(active_keymap, k).name)
    ELSE {"ok"}

\* a dispatcher that forgets the prefix typed so far
AdvanceBug(v) == WindowKeymap

\* if not callable(v): self.active_keymap = v
Advance(v) == v

\* backends.walk(origin, forward): the items from origin on, origin first
Walk(origin, forward) ==
    IF forward
    THEN [i \in 1..(MaxItems - origin + 1) |-> origin + i - 1]
    ELSE [i \in 1..origin |-> origin - i + 1]

\* it = iter(walk(self.cursor, forward)); next(it); self.cursor = next(it)
\* StopIteration from either next(): whine and leave the cursor
Stepped(it) == Len(it) >= 2

\* a move that stays where it is and says nothing
MoveBug(forward) == [cursor |-> cursor, whined |-> 0]

Move(forward) ==
    LET it == Walk(cursor, forward)
    IN  IF Stepped(it) THEN [cursor |-> it[2], whined |-> 0]
                       ELSE [cursor |-> cursor, whined |-> 1]

\* what a bound action that returns does to the cursor, and whether it whines
ActionEffect(name) ==
    CASE name = "next_message" -> Move(TRUE)
      [] name = "prev_message" -> Move(FALSE)
      [] OTHER                 -> [cursor |-> cursor, whined |-> 0]

\* escaped: an exception left input_char (no path of the code does that:
\* the outer clause is "except Exception")
KeyOutcome(akm, whined, called, spawned, res) ==
    [active_keymap |-> akm, whined |-> whined, called |-> called,
     spawned |-> spawned, res |-> res, escaped |-> FALSE]

\* a dispatcher that logs a failure without whining
ExceptClauseBug(called, res) == KeyOutcome(WindowKeymap, 0, called, 0, res)

\* except Exception: log; self.whine(k); self.active_keymap = self.keymap
ExceptClause(called, res) == KeyOutcome(WindowKeymap, 1, called, 0, res)

\* a dispatcher that invokes the action without going back to the root
ResetBug(km) == km

\* self.active_keymap = self.keymap, before ret = v(k)
Reset(km) == WindowKeymap

InputResult(k, outcome) ==
    IF active_keymap.kind # "keymap"
    THEN \* subscripting None raises TypeError: the outer except clause
         ExceptClause(0, "error")
    ELSE
      LET v == Lookup(active_keymap, k) IN
      IF ~Callable(v)
      THEN KeyOutcome(Advance(v), 0, 0, 0,
                      IF v.kind = "none" THEN "unbound" ELSE "submap")
      ELSE CASE outcome = "ok"    -> KeyOutcome(Reset(active_keymap),
                                                ActionEffect(v.name).whined,
                                                1, 0, "action")
             [] outcome = "raise" -> ExceptClause(1, "failed")
             [] outcome = "coro"  -> KeyOutcome(Reset(active_keymap),
                                                0, 1, 1, "coro")

\* history: the keystrokes typed since active_keymap was last the root, the
\* actions they invoked, and the action this keystroke invoked
KeyHistory(k, res) ==
    LET atroot == active_keymap = WindowKeymap
    IN  [k |-> k, res |-> res.res, escaped |-> res.escaped,
         path |-> (IF atroot THEN <<>> ELSE klast.path) \o <<k>>,
         called |-> (IF atroot THEN 0 ELSE klast.called) + res.called,
         name |-> IF res.called = 1 THEN Lookup(active_keymap, k).name ELSE ""]

input_char(k, outcome) ==
    /\ nkeys < MaxKeys
    /\ outcome \in OutcomesFor(k)
    /\ LET res == InputResult(k, outcome)
       IN  /\ active_keymap' = res.active_keymap
           /\ whines' = whines + res.whined
           /\ invoked' = invoked + res.called
           /\ tasks' = tasks + res.spawned
           /\ cursor' = IF res.res = "action"
                        THEN ActionEffect(Lookup(active_keymap, k).name).cursor
                        ELSE cursor
           /\ klast' = KeyHistory(k, res)
    /\ nkeys' = nkeys + 1
    /\ tlast' = "none"

\* TTYFrontend.readable, for one keystroke: input_char(k) on the focused
\* window, then one redisplay (with the window's hint when the stack and the
\* focus did not change, without one when they did)
readable(k, outcome) ==
    /\ input_char(k, outcome)
    /\ redisplays' = redisplays + 1
    /\ UNCHANGED wvars
    /\ UNCHANGED ovars

\* the Task wrapping catch_and_log(coro) runs to its end: the coroutine
\* returns, or it raises and catch_and_log whines
task_finish(outcome) ==
    /\ tasks > 0
    /\ tasks' = tasks - 1
    /\ whines' = whines + (IF outcome = "raise" THEN 1 ELSE 0)
    /\ tlast' = IF outcome = "raise" THEN "raised" ELSE "returned"
    /\ UNCHANGED <<active_keymap, invoked, nkeys, klast, cursor, redisplays>>
    /\ UNCHANGED wvars
    /\ UNCHANGED ovars

\* Window.__init__: self.active_keymap = self.keymap
KeyInit ==
    /\ active_keymap = WindowKeymap
    /\ whines = 0 /\ invoked = 0 /\ tasks = 0 /\ nkeys = 0
    /\ klast = [k |-> "", res |-> "none", escaped |-> FALSE,
                path |-> <<>>, called |-> 0, name |-> ""]
    \* Messager.__init__: the cursor starts on the newest item
    /\ cursor = MaxItems
    /\ redisplays = 0
    /\ tlast = "none"

----------------------------------------------------------------------------
(* Keymap.split: taking one keystroke off a sequence-spec string *)

\* Characters are code points. A key is a str (a sequence of code points,
\* one long unless upper() made it longer), an int (a curses key code) or
\* None; the argument of split is a key or a sequence-spec string.
Chars(s)  == [kind |-> "chars", s |-> s]
IntKey(n) == [kind |-> "int", n |-> n]
NoneKey   == [kind |-> "none"]

\* A sequence-spec string is its words (what whitespace separates); a word is
\* its modifier names as written, then a literal character (c) or a
\* bracketed name (n). Text the grammar does not accept is a word of kind
\* "bad".
Word(mods, kind, c, n) == [mods |-> mods, kind |-> kind, c |-> c, n |-> n]
CharWord(mods, c) == Word(mods, "char", c, "")
NameWord(mods, n) == Word(mods, "name", 0, n)
BadWord == Word(<<>>, "bad", 0, "oogledyboo")
KeySpec(words) == [kind |-> "spec", words |-> words]

ESC == 27
DEL == 127
LF == 10
CR == 13
TAB == 9
CommercialAt == 64
LowLine == 95
SpaceChar == 32
QuestionMark == 63
KEY_F1 == 265

\* str.lower() of a modifier name as written
ModLower(m) ==
    CASE m \in {"Control", "CONTROL", "control"} -> "control"
      [] m \in {"Ctl", "ctl"}                    -> "ctl"
      [] m \in {"Meta", "meta"}                  -> "meta"
      [] m \in {"Alt", "alt"}                    -> "alt"
      [] m \in {"Shift", "shift"}                -> "shift"
      [] m \in {"Hyper", "hyper"}                -> "hyper"
      [] m \in {"Super", "super"}                -> "super"

\* Keymap.modifier_aliases.get(modifier, modifier): the dict has the keys
\* 'ctl' and 'alt' only, and the lookup is made before lower()
ModAlias(m) ==
    CASE m = "ctl" -> "control"
      [] m = "alt" -> "meta"
      [] OTHER     -> m

\* set(modifier_aliases.get(modifier, modifier).lower() for modifier in ...)
ModifierSet(mods) == { ModLower(ModAlias(mods[i])) : i \in 1..Len(mods) }

\* str.upper() and str.lower() of the bracketed names the model uses
NameUpper(n) ==
    CASE n \in {"escape", "Escape", "ESCAPE"} -> "ESCAPE"
      [] n \in {"esc", "ESC"}                 -> "ESC"
      [] n \in {"delete", "DELETE"}           -> "DELETE"
      [] n \in {"tab", "TAB"}                 -> "TAB"
      [] n \in {"return", "RETURN"}           -> "RETURN"
      [] n \in {"line feed", "LINE FEED"}     -> "LINE FEED"
      [] n \in {"carriage return", "CARRIAGE RETURN"} -> "CARRIAGE RETURN"
      [] n \in {"f1", "F1"}                   -> "F1"
      [] n \in {"bogus"}                      -> "BOGUS"
      [] n \in {"latin small letter a", "LATIN SMALL LETTER A"} ->
             "LATIN SMALL LETTER A"
      [] OTHER -> n

NameLower(n) ==
    CASE n \in {"escape", "Escape", "ESCAPE"} -> "escape"
      [] n \in {"esc", "ESC"}                 -> "esc"
      [] n \in {"delete", "DELETE"}           -> "delete"
      [] n \in {"tab", "TAB"}                 -> "tab"
      [] n \in {"return", "RETURN"}           -> "return"
      [] n \in {"line feed", "LINE FEED"}     -> "line feed"
      [] n \in {"carriage return", "CARRIAGE RETURN"} -> "carriage return"
      [] n \in {"f1", "F1"}                   -> "f1"
      [] n \in {"latin small letter a", "LATIN SMALL LETTER A"} ->
             "latin small letter a"
      [] n = "LATIN CAPITAL LETTER A"         -> "latin capital letter a"
      [] n = "LATIN CAPITAL LETTER C"         -> "latin capital letter c"
      [] n = "LATIN CAPITAL LETTER X"         -> "latin capital letter x"
      [] OTHER -> n

\* unicodedata.name and unicodedata.lookup, for the characters the model uses
UnicodeNames ==
       (97 :> "LATIN SMALL LETTER A")
    @@ (65 :> "LATIN CAPITAL LETTER A")
    @@ (67 :> "LATIN CAPITAL LETTER C")
    @@ (88 :> "LATIN CAPITAL LETTER X")
    @@ (120 :> "LATIN SMALL LETTER X")
    @@ (36 :> "DOLLAR SIGN")
    @@ (63 :> "QUESTION MARK")
    @@ (223 :> "LATIN SMALL LETTER SHARP S")

\* unicodedata.lookup also knows the names of the control characters
UnicodeLookup(name) ==
    IF \E c \in DOMAIN UnicodeNames : UnicodeNames[c] = name
    THEN Chars(<< CHOOSE c \in DOMAIN UnicodeNames : UnicodeNames[c] = name >>)
    ELSE CASE name \in {"ESCAPE", "ESC"}  -> Chars(<<ESC>>)
           [] name = "DELETE"             -> Chars(<<DEL>>)
           [] name = "TAB"                -> Chars(<<TAB>>)
           [] name = "LINE FEED"          -> Chars(<<LF>>)
           [] name = "CARRIAGE RETURN"    -> Chars(<<CR>>)
           [] OTHER                       -> NoneKey

\* Keymap.other_keys, from other_keys_spec
other_keys ==
       ("escape" :> ESC) @@ ("esc" :> ESC)
    @@ ("delete" :> DEL) @@ ("del" :> DEL)
    @@ ("line feed" :> LF) @@ ("linefeed" :> LF) @@ ("newline" :> LF)
    @@ ("carriage return" :> CR) @@ ("return" :> CR)
    @@ ("tab" :> TAB)

\* Keymap.unother_keys: the first name of each entry
unother_keys ==
       (ESC :> "escape") @@ (DEL :> "delete") @@ (LF :> "line feed")
    @@ (CR :> "carriage return") @@ (TAB :> "tab")

\* ttyfe.key: the curses KEY_ constants by name
TtyKey == ("F1" :> KEY_F1)

\* str.upper() of a one-character str: a letter a..z loses 32, sharp s
\* becomes the two characters 'SS', every other character of the model is
\* its own upper-case form
Upper(s) ==
    LET c == s[1]
    IN  IF Len(s) # 1 THEN s
        ELSE IF 97 <= c /\ c <= 122 THEN << c - 32 >>
        ELSE IF c = 223 THEN << 83, 83 >>
        ELSE s

\* how split ends: it returns (key, rest), rest = <<>> standing for None, or
\* it raises
Returned(key, rest) == [key |-> key, rest |-> rest, err |-> ""]
Raises(exc)         == [key |-> NoneKey, rest |-> <<>>, err |-> exc]
Untypable           == Returned(NoneKey, <<>>)

\* the key a bracketed name stands for: unicodedata.lookup(name.upper()),
\* else other_keys.get(name.lower()), else ttyfe.key.get(name.upper()),
\* else None ('unknown name')
NamedKey(name) ==
    IF UnicodeLookup(NameUpper(name)) # NoneKey
    THEN UnicodeLookup(NameUpper(name))
    ELSE IF NameLower(name) \in DOMAIN other_keys
    THEN Chars(<< other_keys[NameLower(name)] >>)
    ELSE IF NameUpper(name) \in DOMAIN TtyKey
    THEN IntKey(TtyKey[NameUpper(name)])
    ELSE NoneKey

\* the normalisation steps work on (key, modifiers, rest); out holds the
\* result once a step has returned or raised
Going(key, modifiers, rest) ==
    [key |-> key, modifiers |-> modifiers, rest |-> rest,
     done |-> FALSE, out |-> Untypable]
Ended(out) ==
    [key |-> NoneKey, modifiers |-> {}, rest |-> <<>>,
     done |-> TRUE, out |-> out]

\* if 'hyper' in modifiers or 'super' in modifiers: return None, None
HyperStep(st) ==
    IF st.done \/ {"hyper", "super"} \cap st.modifiers = {} THEN st
    ELSE Ended(Untypable)

\* what Control makes of a one-character key
ControlKey(c) ==
    IF c = QuestionMark THEN Chars(<<DEL>>)
    ELSE LET u == Upper(<<c>>)
         IN  IF CommercialAt <= u[1] /\ u[1] <= LowLine
             THEN Chars(<< u[1] - CommercialAt >>)
             ELSE NoneKey

\* if 'control' in modifiers: ...
ControlStep(st) ==
    IF st.done \/ "control" \notin st.modifiers THEN st
    ELSE IF st.key.kind # "chars" THEN Ended(Untypable)
    ELSE IF st.key.s # <<QuestionMark>> /\ Len(Upper(st.key.s)) # 1
    THEN Ended(Raises("TypeError"))     \* ord() of a str of length 2
    ELSE IF ControlKey(st.key.s[1]) = NoneKey THEN Ended(Untypable)
    ELSE Going(ControlKey(st.key.s[1]), st.modifiers \ {"control"}, st.rest)

\* if 'shift' in modifiers: ...
ShiftStep(st) ==
    IF st.done \/ "shift" \notin st.modifiers THEN st
    ELSE IF st.key.kind # "chars" THEN Ended(Untypable)
    ELSE Going(Chars(Upper(st.key.s)), st.modifiers \ {"shift"}, st.rest)

\* no word: the step that builds the name raised
NoWord == Word(<<>>, "none", 0, "")

\* the name Meta gives the key it wraps:
\*   key in unother_keys      '[' + unother_keys[key].upper() + ']'
\*   ord(key) < ord(' ')      'Control-[' + unicodedata.name(chr(ord(key) + ord('@'))) + ']'
\*   else                     '[' + unicodedata.name('key') + ']'
\* ord() raises TypeError on an int and on a str of two characters, and
\* unicodedata.name raises TypeError on the three-character str 'key'
MetaName(key) ==
    IF key.kind = "chars" /\ Len(key.s) = 1 /\ key.s[1] \in DOMAIN unother_keys
    THEN NameWord(<<>>, NameUpper(unother_keys[key.s[1]]))
    ELSE IF key.kind # "chars" \/ Len(key.s) # 1 THEN NoWord
    ELSE IF key.s[1] < SpaceChar
    THEN NameWord(<<"Control">>, UnicodeNames[key.s[1] + CommercialAt])
    ELSE NoWord

\* a Meta that drops what was left of the sequence
PrependRestBug(name, rest) == << name >>

\* if rest: name += ' ' + rest;  rest = name
PrependRest(name, rest) == << name >> \o rest

\* if 'meta' in modifiers: ...
MetaStep(st) ==
    IF st.done \/ "meta" \notin st.modifiers THEN st
    ELSE IF MetaName(st.key) = NoWord THEN Ended(Raises("TypeError"))
    ELSE Going(Chars(<<ESC>>), st.modifiers \ {"meta"},
               PrependRest(MetaName(st.key), st.rest))

\* assert bool(modifiers) == False;  return key, rest
LastStep(st) ==
    IF st.done THEN st.out
    ELSE IF st.modifiers # {} THEN Raises("AssertionError")
    ELSE Returned(st.key, st.rest)

\* Keymap.split(keyseqspec)
Split(arg) ==
    IF arg.kind # "spec"
    THEN Returned(arg, <<>>)           \* not a str: (keyseqspec, None)
    ELSE
      LET w == Head(arg.words)
          rest == Tail(arg.words)
          key == IF w.kind = "char" THEN Chars(<<w.c>>) ELSE NamedKey(w.n)
      IN  IF Len(arg.words) = 1 /\ w.kind = "char" /\ w.mods = <<>>
          THEN Returned(Chars(<<w.c>>), <<>>)  \* len(keyseqspec) == 1
          ELSE IF w.kind = "bad"
          THEN Raises("TypeError")             \* the regexp does not match
          ELSE IF key = NoneKey
          THEN Raises("TypeError")             \* unknown name
          ELSE LastStep(MetaStep(ShiftStep(ControlStep(HyperStep(
                   Going(key, ModifierSet(w.mods), rest))))))

\* the sequence-spec strings and raw keys split is given
SplitMods == {"Control", "control", "Ctl", "ctl", "Meta", "Alt", "alt",
              "Shift", "Hyper", "super"}
SplitChars == {97, 120, 88, 67, 63, 36, 223}
SplitNames == {"escape", "tab", "latin small letter a", "F1", "bogus"}

ModRuns == UNION { [1..n -> SplitMods] : n \in 0..MaxMods }

SplitRests == { <<>>, << CharWord(<<"Control">>, 67) >>, << BadWord >> }

SplitInputs ==
    { KeySpec(<<w>> \o r) :
        w \in { CharWord(m, c) : m \in ModRuns, c \in SplitChars }
              \cup { NameWord(m, n) : m \in ModRuns, n \in SplitNames }
              \cup { BadWord },
        r \in SplitRests }
    \cup { IntKey(0 - 5), IntKey(KEY_F1) }

\* nothing left to split
Finished == [kind |-> "finished"]

\* orig: the string the first call was (or will be) given
NoCall == [arg |-> Finished, key |-> NoneKey, rest |-> <<>>, err |-> "none yet",
           orig |-> Finished]

\* split has not been given anything
SplitIdle == keyseqspec = Finished /\ path = <<>> /\ sres = NoCall

SplitInit ==
    /\ keyseqspec \in SplitInputs
    /\ path = <<>>
    /\ sres = [NoCall EXCEPT !.orig = keyseqspec]

\* one call of split, as Keymap.__setitem__ makes it at each level: on the
\* string it was given, then on the remainder split returned, until split
\* returns no remainder, returns no key, or raises
split ==
    /\ keyseqspec # Finished
    /\ LET r == Split(keyseqspec)
       IN  /\ sres' = [arg |-> keyseqspec, key |-> r.key, rest |-> r.rest,
                       err |-> r.err, orig |-> sres.orig]
           /\ path' = IF r.err = "" THEN Append(path, r.key) ELSE path
           /\ keyseqspec' = IF r.err = "" /\ r.key # NoneKey /\ r.rest # <<>>
                            THEN KeySpec(r.rest) ELSE Finished
    /\ UNCHANGED wvars
    /\ UNCHANGED kvars
    /\ UNCHANGED mvars
    /\ UNCHANGED xvars

----------------------------------------------------------------------------
(* Keymap: nested dicts keyed by the keys split returns *)

\* Keymap objects live in a heap (object identity matters: Keymap(k) must
\* not share sub-maps with k). heap[i] is the dict of object i; a slot holds
\* a bound value or a reference to a Keymap object.
Value(v) == [kind |-> "value", v |-> v]
Ref(id)  == [kind |-> "ref", id |-> id]
Missing  == [kind |-> "missing"]
EmptyDict == [x \in {} |-> Missing]

\* dict.__getitem__, dict.__setitem__
DictHas(d, key) == key \in DOMAIN d
DictSet(d, key, slot) ==
    [x \in DOMAIN d \cup {key} |-> IF x = key THEN slot ELSE d[x]]

\* a delete that empties the dict
DictDelBug(d, key) == EmptyDict

\* dict.__delitem__
DictDel(d, key) == [x \in DOMAIN d \ {key} |-> d[x]]

\* hasattr(v, '__getitem__'): true of a Keymap, false of an int or a function
HasGetItem(slot) == slot.kind = "ref"

\* how an operation ends: the heap it leaves, the slot it returns, the
\* exception it raises ("" for none)
Done(h, val, err) == [heap |-> h, val |-> val, err |-> err]

\* what subscripting a value that is not a Keymap raises in __getitem__:
\* v[rest] on an int or a function
SubscriptLeaf == "TypeError"

\* Keymap.__getitem__(key) on object id
RECURSIVE GetItem(_, _, _)
GetItem(h, id, key) ==
    IF key.kind # "spec"
    THEN IF DictHas(h[id], key) THEN Done(h, h[id][key], "")
                                ELSE Done(h, Missing, "KeyError")
    ELSE
      LET r == Split(key) IN
      IF r.err # "" THEN Done(h, Missing, r.err)
      ELSE IF ~DictHas(h[id], r.key) THEN Done(h, Missing, "KeyError")
      ELSE IF r.rest # <<>>
      THEN IF HasGetItem(h[id][r.key])
           THEN GetItem(h, h[id][r.key].id, KeySpec(r.rest))
           ELSE Done(h, Missing, SubscriptLeaf)
      ELSE Done(h, h[id][r.key], "")

\* the sub-map __setitem__ descends into when none is there: v = Keymap();
\* super().__setitem__(key, v)
Vivify(h, id, key) ==
    Append([h EXCEPT ![id] = DictSet(@, key, Ref(Len(h) + 1))], EmptyDict)

\* Keymap.__setitem__(key, value) on object id
RECURSIVE SetItem(_, _, _, _)
SetItem(h, id, key, value) ==
    IF key.kind # "spec"
    THEN Done([h EXCEPT ![id] = DictSet(@, key, value)], Missing, "")
    ELSE
      LET r == Split(key) IN
      IF r.err # "" THEN Done(h, Missing, r.err)
      ELSE IF r.key = NoneKey THEN Done(h, Missing, "")
      ELSE IF r.rest = <<>>
      THEN Done([h EXCEPT ![id] = DictSet(@, r.key, value)], Missing, "")
      ELSE IF ~DictHas(h[id], r.key)
      THEN SetItem(Vivify(h, id, r.key), Len(h) + 1, KeySpec(r.rest), value)
      ELSE IF ~HasGetItem(h[id][r.key])
      THEN Done(h, Missing, "KeyError: not a keymap")
      ELSE SetItem(h, h[id][r.key].id, KeySpec(r.rest), value)

\* Keymap.__delitem__(key) on object id
RECURSIVE DelItem(_, _, _)
DelItem(h, id, key) ==
    IF key.kind # "spec"
    THEN IF DictHas(h[id], key)
         THEN Done([h EXCEPT ![id] = DictDel(@, key)], Missing, "")
         ELSE Done(h, Missing, "KeyError")
    ELSE
      LET r == Split(key) IN
      IF r.err # "" THEN Done(h, Missing, r.err)
      ELSE IF r.rest = <<>>
      THEN IF DictHas(h[id], r.key)
           THEN Done([h EXCEPT ![id] = DictDel(@, r.key)], Missing, "")
           ELSE Done(h, Missing, "KeyError")
      ELSE IF ~DictHas(h[id], r.key) THEN Done(h, Missing, "KeyError")
      ELSE IF ~HasGetItem(h[id][r.key])
      THEN Done(h, Missing, "KeyError: not a keymap")
      ELSE DelItem(h, h[id][r.key].id, KeySpec(r.rest))

\* a copy that takes the sub-map object itself
SubCopyBug(h, slot) == [heap |-> h, slot |-> slot]

\* Keymap(d): a new object, then update(d):
\*   for k, v in d.items():
\*       self[k] = Keymap(v) if hasattr(v, 'items') else v
\* The keys of d are keys split returned; __setitem__ stores under a str of
\* one character or an int as it is.
RECURSIVE CopyItems(_, _, _, _)
RECURSIVE SubCopy(_, _)

\* Keymap(v) for a sub-map v: the heap with the copy, and the slot naming it
SubCopy(h, slot) ==
    [heap |-> CopyItems(Append(h, EmptyDict), slot.id, DOMAIN h[slot.id],
                        Len(h) + 1),
     slot |-> Ref(Len(h) + 1)]

\* update: the entries keys of object src, stored into object dst
CopyItems(h, src, keys, dst) ==
    IF keys = {} THEN h
    ELSE LET key == CHOOSE x \in keys : TRUE
             v == h[src][key]
             c == IF HasGetItem(v) THEN SubCopy(h, v)
                                   ELSE [heap |-> h, slot |-> v]
         IN  CopyItems([c.heap EXCEPT ![dst] = DictSet(@, key, c.slot)],
                       src, keys \ {key}, dst)

\* Keymap(k) for the Keymap object id: the new object is Len(h) + 1
CopyKeymap(h, id) ==
    CopyItems(Append(h, EmptyDict), id, DOMAIN h[id], Len(h) + 1)

\* the Keymap k of the tests, and the paths and values used on it
KRoot == 1
WordA == CharWord(<<>>, 97)
WordB == CharWord(<<>>, 98)
WordMetaA == CharWord(<<"Meta">>, 97)

\* sequence-spec strings for typable paths: "a", "b", "a a", "a b", "b a",
\* "b b" and "Meta-a"
KmPaths ==
    { <<WordA>>, <<WordB>>, <<WordA, WordA>>, <<WordA, WordB>>,
      <<WordB, WordA>>, <<WordB, WordB>>, <<WordMetaA>> }
KmValues == {1, 2}

Binding(p, v) == [p |-> p, v |-> v]

\* k = Keymap() followed by the assignments binds
RECURSIVE Bound(_, _)
Bound(h, binds) ==
    IF binds = <<>> THEN h
    ELSE Bound(SetItem(h, KRoot, KeySpec(Head(binds).p), Value(Head(binds).v)).heap,
               Tail(binds))

\* the keymaps an execution starts with: Keymap(), then k['a b'] = 1, then
\* k['b'] = 2
KmSetups ==
    { <<>>,
      << Binding(<<WordA, WordB>>, 1) >>,
      << Binding(<<WordA, WordB>>, 1), Binding(<<WordB>>, 2) >> }

\* words that split accepts and finds untypable: "Hyper-a", "super-x",
\* "Control-$", "Control-[F1]" and "Shift-[F1]"
UntypableWords ==
    { CharWord(<<"Hyper">>, 97), CharWord(<<"super">>, 120),
      CharWord(<<"Control">>, 36), NameWord(<<"Control">>, "F1"),
      NameWord(<<"Shift">>, "F1") }

\* words that split rejects: text outside the grammar, and "[bogus]"
MalformedWords == { BadWord, NameWord(<<>>, "bogus") }

\* the strings bound, read and deleted where a keystroke is untypable or
\* malformed: the word alone, after "a", and before "b"; and the plain
\* "a", "b" and "a b"
BindPaths ==
    { <<w>> : w \in UntypableWords \cup MalformedWords }
    \cup { <<WordA, w>> : w \in UntypableWords \cup MalformedWords }
    \cup { <<w, WordB>> : w \in UntypableWords \cup MalformedWords }
    \cup { <<WordA>>, <<WordB>>, <<WordA, WordB>> }

\* history: the last Keymap operation, its arguments and how it ended
Op(op, root, p, v, err, val) ==
    [op |-> op, root |-> root, p |-> p, v |-> v, err |-> err, val |-> val]
NoOp == Op("none", 0, <<>>, 0, "", Missing)

MapIdle == heap = << EmptyDict >> /\ lcopy = 0 /\ nops = 0 /\ mlast = NoOp

MapInit ==
    /\ heap \in { Bound(<< EmptyDict >>, s) : s \in KmSetups }
    /\ lcopy = 0
    /\ nops = 0
    /\ mlast = NoOp

\* the Keymap objects the program holds: k, and l = Keymap(k) once made
Roots == {KRoot} \cup (IF lcopy # 0 THEN {lcopy} ELSE {})

MapStep(h, call) ==
    /\ nops < MaxOps
    /\ heap' = h
    /\ mlast' = call
    /\ nops' = nops + 1
    /\ UNCHANGED wvars
    /\ UNCHANGED kvars
    /\ UNCHANGED svars
    /\ UNCHANGED xvars

\* root[p] = v
setitem(root, p, v) ==
    /\ root \in Roots
    /\ LET r == SetItem(heap, root, KeySpec(p), Value(v))
       IN  MapStep(r.heap, Op("set", root, p, v, r.err, Missing))
    /\ UNCHANGED lcopy

\* del root[p]
delitem(root, p) ==
    /\ root \in Roots
    /\ LET r == DelItem(heap, root, KeySpec(p))
       IN  MapStep(r.heap, Op("del", root, p, 0, r.err, Missing))
    /\ UNCHANGED lcopy

\* root[p]
getitem(root, p) ==
    /\ root \in Roots
    /\ LET r == GetItem(heap, root, KeySpec(p))
       IN  MapStep(r.heap, Op("get", root, p, 0, r.err, r.val))
    /\ UNCHANGED lcopy

\* l = Keymap(k)
copy ==
    /\ lcopy = 0
    /\ lcopy' = Len(heap) + 1
    /\ MapStep(CopyKeymap(heap, KRoot), Op("copy", KRoot, <<>>, 0, "", Missing))

----------------------------------------------------------------------------
(* Location: a pointer into the content stream, and Location.shift *)

\* The content stream is the items 1..Len(chunklines), oldest first;
\* chunklines[i] is what chunksize gives for item i. window.view(origin,
\* 'forward') yields the items origin, origin + 1, ...; 'backward' yields
\* origin, origin - 1, ...

\* Location(fe, cursor, offset)
Location(c, offset) == [cursor |-> c, offset |-> offset]

Min(a, b) == IF a < b THEN a ELSE b

\* what the loops of shift hold when they end
LoopVars(c, lines, delta) == [cursor |-> c, lines |-> lines, delta |-> delta]

\* for cursor, chunks in view: lines = chunksize(chunks);
\*     if delta < lines: break;  delta -= lines
\* with the view about to yield item nxt
RECURSIVE ForwardLoop(_, _, _, _, _)
ForwardLoop(cl, c, lines, delta, nxt) ==
    IF nxt > Len(cl) THEN LoopVars(c, lines, delta)
    ELSE IF delta < cl[nxt] THEN LoopVars(nxt, cl[nxt], delta)
    ELSE ForwardLoop(cl, nxt, cl[nxt], delta - cl[nxt], nxt + 1)

\* for cursor, chunks in view: lines = chunksize(chunks);
\*     if -delta <= lines: break;  delta += lines
RECURSIVE BackwardLoop(_, _, _, _, _)
BackwardLoop(cl, c, lines, delta, nxt) ==
    IF nxt < 1 THEN LoopVars(c, lines, delta)
    ELSE IF 0 - delta <= cl[nxt] THEN LoopVars(nxt, cl[nxt], delta)
    ELSE BackwardLoop(cl, nxt, cl[nxt], delta + cl[nxt], nxt - 1)

\* Location.shift(delta) of the Location l, over the stream cl
Shift(cl, l, delta) ==
    IF delta = 0 THEN l
    ELSE IF delta <= 0 /\ 0 - delta < l.offset
    THEN Location(l.cursor, l.offset + delta)
    ELSE IF delta > 0
    THEN IF l.offset + delta < cl[l.cursor]
         THEN Location(l.cursor, l.offset + delta)
         ELSE LET e == ForwardLoop(cl, l.cursor, cl[l.cursor],
                                   delta - (cl[l.cursor] - l.offset),
                                   l.cursor + 1)
              IN  Location(e.cursor, Min(e.lines + e.delta, e.lines))
    ELSE LET e == BackwardLoop(cl, l.cursor, cl[l.cursor],
                               delta + l.offset - 1, l.cursor - 1)
         IN  Location(e.cursor, Max(0, e.lines + e.delta))

\* the content streams, and the Locations that point at a line of one
Streams == UNION { [1..n -> 1..MaxLines] : n \in 1..MaxItems }
Locations(cl) ==
    { l \in [cursor : 1..Len(cl), offset : 0..(MaxLines - 1)] :
        l.offset < cl[l.cursor] }

\* history: a call of shift, the Location it was made on and the one it
\* returned
ShiftCall(from, delta, to) == [from |-> from, delta |-> delta, to |-> to]

LocIdle == chunklines = <<1>> /\ loc = Location(1, 0) /\ lhist = <<>>

LocInit ==
    /\ chunklines \in Streams
    /\ loc \in Locations(chunklines)
    /\ lhist = <<>>

\* loc = loc.shift(delta)
shift(delta) ==
    /\ loc' = Shift(chunklines, loc, delta)
    /\ lhist' = << ShiftCall(loc, delta, loc') >>
                   \o (IF lhist = <<>> THEN <<>> ELSE << lhist[1] >>)
    /\ UNCHANGED chunklines
    /\ UNCHANGED <<wvars, kvars, svars, mvars, rvars, dvars, bvars>>

----------------------------------------------------------------------------
(* TTYRenderer: painting a window from head, and reframe *)

\* None, where a Location is expected
NoLocation == Location(0, 0)

\* a text chunk of the view: whether its tags hold 'visible', and the screen
\* lines doline makes of its text (every line ends in a newline and is
\* narrower than the window)
Chunk(visible, lines) == [visible |-> visible, lines |-> lines]

\* what Messager.view yields for item x: the item the cursor is on is its
\* first line, tagged 'visible', then '\n'.join(lines[1:]) + '\n', which is
\* one empty line when the item has a single line; any other item is one
\* chunk
ViewChunks(cl, cur, x) ==
    IF x = cur
    THEN << Chunk(TRUE, 1), Chunk(FALSE, Max(cl[x] - 1, 1)) >>
    ELSE << Chunk(FALSE, cl[x]) >>

\* a paint that reports every chunk as the cursor's
VisibleTagBug(chunk) == TRUE

\* 'visible' in tags
VisibleTag(chunk) == chunk.visible

\* what redisplay_internal has so far: the flag it will return, whether the
\* 'visible' line was written to the screen, sill, and screenlines
Painting(visible, painted, sl, screenlines) ==
    [visible |-> visible, painted |-> painted, sill |-> sl,
     screenlines |-> screenlines]

\* for tags, text in chunk: each line of the chunk is written if
\* screenlines <= height, and takes one off screenlines, until it is 0
RECURSIVE PaintChunks(_, _, _)
PaintChunks(chunks, h, pt) ==
    IF chunks = <<>> \/ pt.screenlines <= 0 THEN pt
    ELSE LET c == Head(chunks)
         IN  PaintChunks(Tail(chunks), h,
                Painting(pt.visible \/ VisibleTag(c),
                         pt.painted \/ (c.visible /\ pt.screenlines <= h),
                         pt.sill,
                         Max(pt.screenlines - c.lines, 0)))

\* for mark, chunk in self.window.view(self.head.cursor): with the view
\* about to yield item mark
RECURSIVE PaintItems(_, _, _, _, _)
PaintItems(cl, cur, h, mark, pt) ==
    IF mark > Len(cl) \/ pt.screenlines <= 0 THEN pt
    ELSE LET chunkat == pt.screenlines
             after == PaintChunks(ViewChunks(cl, cur, mark), h, pt)
         IN  PaintItems(cl, cur, h, mark + 1,
                [after EXCEPT !.sill =
                    Location(mark, Max(0, chunkat - after.screenlines - 1))])

\* TTYRenderer.redisplay_internal(), painting from the Location hd
redisplay_internal(cl, cur, h, hd, sl) ==
    PaintItems(cl, cur, h, hd.cursor,
               Painting(FALSE, FALSE, sl, h + hd.offset))

\* the screenlines reframe starts from: target None, and an integer target
Centered(h) == h \div 2
Directed(h, target) ==
    IF target >= 0 THEN Min(h - 1, target) ELSE Max(h + target, 0)

\* self.head = Location(self, mark, max(0, (- screenlines) - 1))
HeadAt(mark, screenlines) == Location(mark, Max(0, (0 - screenlines) - 1))

\* the loop of reframe over view(cursor, 'backward'), past the cursor's
\* item and about to be given item nxt
RECURSIVE ReframeLoop(_, _, _, _)
ReframeLoop(cl, mark, nxt, screenlines) ==
    IF nxt < 1 THEN HeadAt(mark, screenlines)
    ELSE IF screenlines - cl[nxt] <= 0
    THEN HeadAt(nxt, screenlines - cl[nxt])
    ELSE ReframeLoop(cl, nxt, nxt - 1, screenlines - cl[nxt])

\* TTYRenderer.reframe: the new head. Of the cursor's item the loop counts
\* the chunks before the 'visible' one, which are none.
reframe(cl, cur, screenlines) ==
    IF screenlines <= 0 THEN HeadAt(cur, screenlines)
    ELSE ReframeLoop(cl, cur, cur - 1, screenlines)

\* one call of redisplay_internal as redisplay sees it
Paint(cl, cur, h, hd, sl) ==
    LET pt == redisplay_internal(cl, cur, h, hd, sl)
    IN  [head |-> hd, sill |-> pt.sill, visible |-> pt.visible,
         painted |-> pt.painted]

\* TTYRenderer.redisplay(): head and sill afterwards, the paints made, and
\* whether the last branch ('giving up') was reached
Redisplay(cl, cur, h, hd, sl) ==
    LET h0 == IF hd = NoLocation THEN reframe(cl, cur, Centered(h)) ELSE hd
        p1 == Paint(cl, cur, h, h0, sl)
        h1 == IF cur < h0.cursor THEN reframe(cl, cur, Directed(h, 0))
              ELSE IF cur > h0.cursor THEN reframe(cl, cur, Directed(h, 0 - 1))
              ELSE h0
        p2 == Paint(cl, cur, h, h1, p1.sill)
        h2 == IF p2.visible THEN h1 ELSE reframe(cl, cur, Centered(h))
        p3 == Paint(cl, cur, h, h2, p2.sill)
    IN  IF p1.visible
        THEN [head |-> h0, sill |-> p1.sill, paints |-> <<p1>>,
              gaveup |-> FALSE]
        ELSE [head |-> h2, sill |-> p3.sill, paints |-> <<p1, p2, p3>>,
              gaveup |-> ~p3.visible]

\* history: the last call made on the renderer or its window
RenderCall(op, paints, gaveup) ==
    [op |-> op, paints |-> paints, gaveup |-> gaveup]

RenderIdle ==
    /\ wcursor = 1 /\ rheight = 1
    /\ head = NoLocation /\ sill = NoLocation
    /\ rlast = RenderCall("none", <<>>, FALSE)

\* a renderer of any height on a window whose cursor is on an item of the
\* stream; head is None, or the Location the window's hints carry
RenderInit ==
    /\ wcursor \in 1..Len(chunklines)
    /\ rheight \in 1..MaxY
    /\ head \in {NoLocation} \cup Locations(chunklines)
    /\ sill = NoLocation
    /\ rlast = RenderCall("none", <<>>, FALSE)

\* TTYRenderer.redisplay()
redisplay ==
    /\ LET r == Redisplay(chunklines, wcursor, rheight, head, sill)
       IN  /\ head' = r.head
           /\ sill' = r.sill
           /\ rlast' = RenderCall("redisplay", r.paints, r.gaveup)
    /\ UNCHANGED <<wcursor, rheight>>
    /\ UNCHANGED <<wvars, kvars, svars, mvars, lvars, dvars, bvars>>

\* Messager.next_message / prev_message on the window shown: the cursor
\* goes to the second item of the walk, if there is one
move_cursor(forward) ==
    /\ LET it == IF forward
                 THEN [i \in 1..(Len(chunklines) - wcursor + 1) |-> wcursor + i - 1]
                 ELSE [i \in 1..wcursor |-> wcursor - i + 1]
       IN  wcursor' = IF Stepped(it) THEN it[2] ELSE wcursor
    /\ rlast' = RenderCall("move", <<>>, FALSE)
    /\ UNCHANGED <<rheight, head, sill>>
    /\ UNCHANGED <<wvars, kvars, svars, mvars, lvars, dvars, bvars>>

----------------------------------------------------------------------------
(* TTYRenderer.doline: a text cut into screen lines *)

\* A text is a sequence of code points; remaining is an int or None.
PyInt(n) == IntKey(n)
PyNone == NoneKey

TabStop == 8
WideChar == 19968       \* a CJK ideograph: east_asian_width 'W'

Spaces(n) == [i \in 1..n |-> SpaceChar]

\* TTYRenderer.width of one character at or above ' ': 2 for a wide
\* character, else 1 (the model has no combining characters)
cwidth(c) == IF c = WideChar THEN 2 ELSE 1

\* str.expandtabs(): a tab becomes the spaces to the next multiple of 8, the
\* column starting again after a newline
RECURSIVE ExpandTabs(_, _)
ExpandTabs(s, col) ==
    IF s = <<>> THEN <<>>
    ELSE IF Head(s) = TAB
    THEN Spaces(TabStop - (col % TabStop))
            \o ExpandTabs(Tail(s), col + (TabStop - (col % TabStop)))
    ELSE IF Head(s) = LF THEN <<LF>> \o ExpandTabs(Tail(s), 0)
    ELSE << Head(s) >> \o ExpandTabs(Tail(s), col + 1)

\* TextWrapper._munge_whitespace: tabs expanded, then every whitespace
\* character made a space
MungeWhitespace(s) ==
    LET e == ExpandTabs(s, 0)
    IN  [i \in 1..Len(e) |-> IF e[i] \in {TAB, LF, SpaceChar} THEN SpaceChar
                             ELSE e[i]]

IsBlank(chunk) == \A i \in 1..Len(chunk) : chunk[i] = SpaceChar

\* the length of the run of spaces, or of other characters, s begins with
RunLength(s) ==
    CHOOSE n \in 1..Len(s) :
        /\ \A i \in 1..n : (s[i] = SpaceChar) = (s[1] = SpaceChar)
        /\ n = Len(s) \/ (s[n + 1] = SpaceChar) # (s[1] = SpaceChar)

\* TextWrapper._split: the words and the runs of whitespace between them
RECURSIVE SplitChunks(_)
SplitChunks(s) ==
    IF s = <<>> THEN <<>>
    ELSE << SubSeq(s, 1, RunLength(s)) >>
            \o SplitChunks(SubSeq(s, RunLength(s) + 1, Len(s)))

\* how many of the chunks fit on a line that already holds cur_len
RECURSIVE TakeFit(_, _, _)
TakeFit(chunks, width, cur_len) ==
    IF chunks = <<>> \/ cur_len + Len(Head(chunks)) > width THEN 0
    ELSE 1 + TakeFit(Tail(chunks), width, cur_len + Len(Head(chunks)))

RECURSIVE Concat(_)
Concat(chunks) ==
    IF chunks = <<>> THEN <<>> ELSE Head(chunks) \o Concat(Tail(chunks))

\* TextWrapper._wrap_chunks for width > 0: one line per round, a chunk
\* longer than the width broken to fill the line, whitespace dropped at the
\* end of a line and at the start of every line but the first
RECURSIVE WrapChunks(_, _, _)
WrapChunks(chunks, width, lines) ==
    IF chunks = <<>> THEN lines
    ELSE
      LET ch == IF IsBlank(Head(chunks)) /\ lines # <<>> THEN Tail(chunks)
                ELSE chunks
          n == TakeFit(ch, width, 0)
          fit == SubSeq(ch, 1, n)
          rest == SubSeq(ch, n + 1, Len(ch))
          long == rest # <<>> /\ Len(Head(rest)) > width
          space_left == width - Len(Concat(fit))
          cur_line == IF long
                      THEN Append(fit, SubSeq(Head(rest), 1, space_left))
                      ELSE fit
          left == IF long
                  THEN << SubSeq(Head(rest), space_left + 1, Len(Head(rest))) >>
                          \o Tail(rest)
                  ELSE rest
          kept == IF cur_line # <<>> /\ IsBlank(cur_line[Len(cur_line)])
                  THEN SubSeq(cur_line, 1, Len(cur_line) - 1)
                  ELSE cur_line
      IN  WrapChunks(left, width,
                     IF kept # <<>> THEN Append(lines, Concat(kept)) ELSE lines)

\* textwrap.wrap(s, width): the lines, or the exception of a width that is
\* None or not positive
Wrapped(lines, err) == [lines |-> lines, err |-> err]
wrap(s, width) ==
    IF width = PyNone THEN Wrapped(<<>>, "TypeError")
    ELSE IF width.n <= 0 THEN Wrapped(<<>>, "ValueError")
    ELSE Wrapped(WrapChunks(SplitChunks(MungeWhitespace(s)), width.n, <<>>), "")

\* sep.join(lines)
RECURSIVE Join(_, _)
Join(sep, lines) ==
    IF lines = <<>> THEN <<>>
    ELSE IF Len(lines) = 1 THEN lines[1]
    ELSE lines[1] \o sep \o Join(sep, Tail(lines))

\* if 'fill' in tags: the text re-wrapped, its first line to the remaining
\* width and the others to the window's
Filled(s, err) == [s |-> s, err |-> err]
Fill(s, width, remaining) ==
    LET nl == s # <<>> /\ s[Len(s)] = LF
        ll == wrap(s, remaining)
    IN  IF ll.err # "" THEN Filled(<<>>, ll.err)
        ELSE IF ll.lines = <<>> THEN Filled(<<>>, "IndexError")   \* ll[0]
        ELSE Filled(
               Join(<<LF>>, << ll.lines[1] >>
                     \o wrap(Join(<<SpaceChar>>, Tail(ll.lines)),
                             PyInt(width)).lines)
                 \o (IF nl THEN <<LF>> ELSE <<>>),
               "")

\* what the loop of doline holds: the line being built, the number of lines
\* begun, the column (col is None once it was assigned a remaining of
\* None), the pairs yielded and the exception raised
Lining(out, line, col, res, err) ==
    [out |-> out, line |-> line, col |-> col, res |-> res, err |-> err]
Yield(st, text, remaining) ==
    [st EXCEPT !.res = Append(@, [line |-> text, remaining |-> remaining])]
Raise(st, exc) == [st EXCEPT !.err = exc]

\* a newline: yield out, -1 if col < width else 0   (width - col if right)
NewlineStep(st, width, right) ==
    IF st.col = PyNone THEN Raise(st, "TypeError")
    ELSE [Yield(st, st.out,
                IF right THEN width - st.col.n
                ELSE IF st.col.n < width THEN 0 - 1 ELSE 0)
            EXCEPT !.out = <<>>, !.col = PyInt(0), !.line = @ + 1]

\* out += c;  col += l
AddStep(st, c, l) ==
    IF st.col = PyNone THEN Raise(st, "TypeError")
    ELSE [st EXCEPT !.out = @ \o c, !.col = PyInt(@.n + l)]

\* a tab or a character at or above ' '
CharStep(st, ch, width, remaining, right) ==
    IF st.col = PyNone THEN Raise(st, "TypeError")
    ELSE
      LET c == IF ch = TAB THEN Spaces(TabStop - (st.col.n % TabStop))
               ELSE <<ch>>
          l == IF ch = TAB THEN Len(c) ELSE cwidth(ch)
          flushed ==
              IF right /\ st.line = 0
              THEN [Yield(st, <<>>, 0 - 1)
                      EXCEPT !.col = remaining, !.line = @ + 1]
              ELSE [Yield(st, st.out, 0)
                      EXCEPT !.out = <<>>, !.col = PyInt(0), !.line = @ + 1]
      IN  IF st.col.n + l > width
          THEN IF Len(c) > 1 THEN flushed   \* it's a TAB: continue
               ELSE AddStep(flushed, c, l)
          ELSE AddStep(st, c, l)

\* for c in s: ...
RECURSIVE LineLoop(_, _, _, _, _)
LineLoop(s, st, width, remaining, right) ==
    IF s = <<>> \/ st.err # "" THEN st
    ELSE LineLoop(Tail(s),
            IF Head(s) = LF THEN NewlineStep(st, width, right)
            ELSE IF Head(s) >= SpaceChar \/ Head(s) = TAB
            THEN CharStep(st, Head(s), width, remaining, right)
            ELSE st,
            width, remaining, right)

\* if out: yield out, width - col
LastLine(st, width) ==
    IF st.err # "" \/ st.out = <<>> THEN st
    ELSE IF st.col = PyNone THEN Raise(st, "TypeError")
    ELSE Yield(st, st.out, width - st.col.n)

\* col = 0 if remaining is None or remaining <= 0 else width - remaining
FirstCol(width, remaining) ==
    IF remaining = PyNone THEN 0
    ELSE IF remaining.n <= 0 THEN 0
    ELSE width - remaining.n

\* TTYRenderer.doline(s, width, remaining, tags): the list of
\* (line, remaining) pairs, or the exception
Doline(s, width, remaining, tags) ==
    LET f == IF "fill" \in tags THEN Fill(s, width, remaining)
             ELSE Filled(s, "")
        st == LastLine(
                LineLoop(f.s,
                         Lining(<<>>, 0, PyInt(FirstCol(width, remaining)),
                                <<>>, ""),
                         width, remaining, "right" \in tags),
                width)
    IN  IF f.err # "" THEN [res |-> <<>>, err |-> f.err]
        ELSE [res |-> IF st.err = "" THEN st.res ELSE <<>>, err |-> st.err]

\* the texts, widths, remaining widths and tags doline is given
TextChars == {97, SpaceChar, LF, TAB, WideChar}
Texts == UNION { [1..n -> TextChars] : n \in 0..MaxText }
Widths == 1..MaxWidth \cup {TabStop}
Remainings(width) == {PyNone} \cup { PyInt(n) : n \in (0 - 1)..width }
TagSets == SUBSET {"right", "fill"}

DolineArgs(s, width, remaining, tags) ==
    [s |-> s, width |-> width, remaining |-> remaining, tags |-> tags]
NotCalled == [called |-> FALSE, res |-> <<>>, err |-> ""]

LineIdle ==
    /\ dargs = DolineArgs(<<>>, 1, PyNone, {})
    /\ dres = NotCalled

LineInit ==
    /\ \E s \in Texts, width \in Widths, tags \in TagSets :
          \E remaining \in Remainings(width) :
             dargs = DolineArgs(s, width, remaining, tags)
    /\ dres = NotCalled

\* textbits = self.doline(text, self.width, remaining, tags)
doline ==
    /\ ~dres.called
    /\ LET r == Doline(dargs.s, dargs.width, dargs.remaining, dargs.tags)
       IN  dres' = [called |-> TRUE, res |-> r.res, err |-> r.err]
    /\ UNCHANGED dargs
    /\ UNCHANGED <<wvars, kvars, svars, mvars, lvars, rvars, bvars>>

----------------------------------------------------------------------------
(* Roost.backfill: fetching older messages, one task at a time *)

\* A do_backfill task is a coroutine; it is suspended at
\*   "sleep"  yield from asyncio.sleep(.0001), before the guard
\*   "fetch"  chunk = yield from self.r.messages(...), inside the guard
\* and otherwise not yet started ("none") or finished ("done"). The event
\* loop runs one task at a time, from one suspension point to the next.
TaskIds == 1..MaxTasks

\* a guard that lets every task in
AlreadyBug(guard) == FALSE

\* backfillguard: if self.backfilling: yield True
Already(guard) == guard

\* the task a call of asyncio.Task(self.do_backfill(...)) creates
NewTask(bt) == CHOOSE t \in TaskIds : bt[t] = "none" /\ \A u \in 1..(t - 1) : bt[u] # "none"
CanStart(bt) == \E t \in TaskIds : bt[t] = "none"

\* Roost.backfill(): if not self.loaded: asyncio.Task(self.do_backfill(...))
Backfill(bt, ld) ==
    IF ld THEN bt ELSE [bt EXCEPT ![NewTask(bt)] = "sleep"]

\* history: the step a task made, whether it found the guard held, and
\* whether it ended in an exception
TaskStep(op, t, already, raised) ==
    [op |-> op, t |-> t, already |-> already, raised |-> raised]

\* ms = [RoostMessage(self, m) for m in chunk['messages']]; ms.reverse():
\* n messages older than any held, numbered downwards
Older(msgs, n) ==
    LET oldest == IF msgs = <<>> THEN 1 ELSE msgs[1]
    IN  [i \in 1..n |-> oldest - n + i - 1]

\* history: a task is "no" continuation, or one a running do_backfill
\* scheduled from inside its guard: "alone" while no other task has been
\* waiting or fetching since, "crowded" otherwise
Pending(bt, t) == bt[t] \in {"sleep", "fetch"}
Continuations(bt, scheduled) ==
    [t \in TaskIds |->
        LET others == \E u \in TaskIds \ {t} : Pending(bt, u)
        IN  IF t \in scheduled
            THEN IF others THEN "crowded" ELSE "alone"
            ELSE IF cont[t] = "alone" /\ btasks[t] = "sleep" /\ others
            THEN "crowded"
            ELSE cont[t]]

\* mutant: the with block never gives the guard back
GuardAfterBug(raised) == TRUE

\* self.backfilling after the with block: False when the body ran to its
\* end (the generator resumes after yield False), still True when an
\* exception left it (there is no try/finally around the yield)
GuardAfter(raised) == raised

FillIdle ==
    /\ backfilling = FALSE /\ loaded = FALSE /\ messages = <<>>
    /\ btasks = [t \in TaskIds |-> "none"]
    /\ fetches = 0
    /\ blast = TaskStep("none", 0, FALSE, FALSE)
    /\ cont = [t \in TaskIds |-> "no"]

\* Roost.__init__
FillInit == FillIdle

FillUnchanged == UNCHANGED <<wvars, kvars, svars, mvars, lvars, rvars, dvars>>

\* the messages that arrived since the start, numbered upwards from 1
Arrived(msgs) == { i \in 1..Len(msgs) : msgs[i] >= 1 }

\* Roost.new_message(m): self.messages.append(msg)
new_message ==
    /\ Cardinality(Arrived(messages)) < MaxNew
    /\ messages' = Append(messages, Cardinality(Arrived(messages)) + 1)
    /\ blast' = TaskStep("new_message", 0, FALSE, FALSE)
    /\ UNCHANGED <<backfilling, loaded, btasks, fetches, cont>>
    /\ FillUnchanged

\* Roost.backfill(filter, ...), called by whoever walks the messages
backfill ==
    /\ loaded \/ CanStart(btasks)
    /\ btasks' = Backfill(btasks, loaded)
    /\ cont' = Continuations(btasks', {})
    /\ blast' = TaskStep("backfill", 0, FALSE, FALSE)
    /\ UNCHANGED <<backfilling, loaded, messages, fetches>>
    /\ FillUnchanged

\* task t wakes from its sleep and runs to its next suspension point or to
\* its end: it finds the guard held and returns; or it takes the guard and,
\* if everything is loaded, returns through the guard's exit; or it calls
\* self.r.messages and is suspended there
do_backfill_enter(t) ==
    /\ btasks[t] = "sleep"
    /\ IF Already(backfilling)
       THEN /\ btasks' = [btasks EXCEPT ![t] = "done"]
            /\ blast' = TaskStep("enter", t, TRUE, FALSE)
            /\ UNCHANGED <<backfilling, fetches>>
       ELSE IF loaded
       THEN /\ btasks' = [btasks EXCEPT ![t] = "done"]
            /\ backfilling' = GuardAfter(FALSE)
            /\ blast' = TaskStep("enter", t, FALSE, FALSE)
            /\ UNCHANGED fetches
       ELSE /\ btasks' = [btasks EXCEPT ![t] = "fetch"]
            /\ backfilling' = TRUE
            /\ fetches' = fetches + 1
            /\ blast' = TaskStep("enter", t, FALSE, FALSE)
    /\ cont' = Continuations(btasks', {})
    /\ UNCHANGED <<loaded, messages>>
    /\ FillUnchanged

\* self.r.messages returns a chunk of n messages to task t, which runs to
\* its end: the messages go in front of the list, backfill is called again
\* if more are wanted, and redisplay(ms[0], ms[-1]) raises IndexError on an
\* empty chunk, which leaves the with block without clearing the guard
do_backfill_chunk(t, n, isDone, more) ==
    /\ btasks[t] = "fetch"
    /\ more => n > 0
    /\ LET ld == loaded \/ isDone
           bt == [btasks EXCEPT ![t] = "done"]
       IN  /\ more => (ld \/ CanStart(bt))
           /\ loaded' = ld
           /\ messages' = Older(messages, n) \o messages
           /\ btasks' = IF more THEN Backfill(bt, ld) ELSE bt
           /\ cont' = Continuations(btasks',
                          IF more /\ ~ld THEN {NewTask(bt)} ELSE {})
    /\ backfilling' = GuardAfter(n = 0)
    /\ blast' = TaskStep("chunk", t, FALSE, n = 0)
    /\ UNCHANGED fetches
    /\ FillUnchanged

\* self.r.messages raises in task t: the exception leaves the with block,
\* and the guard has no finally clause
do_backfill_error(t) ==
    /\ btasks[t] = "fetch"
    /\ btasks' = [btasks EXCEPT ![t] = "done"]
    /\ blast' = TaskStep("error", t, FALSE, TRUE)
    /\ backfilling' = GuardAfter(TRUE)
    /\ cont' = Continuations(btasks', {})
    /\ UNCHANGED <<loaded, messages, fetches>>
    /\ FillUnchanged

----------------------------------------------------------------------------
(* The specifications *)

\* the state TTYFrontend.initial(win) leaves, for a terminal of maxy rows
FrontInit ==
    /\ maxy \in 1..MaxY
    /\ windows = << TTYRenderer(0, maxy, 1) >>
    /\ active = 0
    /\ popstack = <<>>
    /\ destroyed = [w \in WinIds |-> 0]
    /\ nextWin = 2
    /\ last = Call("initial", TRUE, 1, 0)
    /\ scen = NoScen
    /\ futures = [w \in WinIds |-> "none"]
    /\ settled = [w \in WinIds |-> 0]
    /\ received = [w \in WinIds |-> "none"]
    /\ first = [w \in WinIds |-> "none"]

\* nothing but the front end and the dispatcher is in use
Idle == LocIdle /\ RenderIdle /\ LineIdle /\ FillIdle

Init == FrontInit /\ KeyInit /\ SplitIdle /\ MapIdle /\ Idle

Next ==
    \/ \E new \in WinIds : split_window(new)
    \/ \E n \in DeleteArgs : delete_window(n)
    \/ \E new \in WinIds, height \in 1..MaxPopH, select \in BOOLEAN :
          popup_window(new, height, select)
    \/ popdown_window
    \/ \E newy \in 1..MaxY : doresize(newy)
    \/ switch_window(1)

Spec == Init /\ [][Next]_vars

\* the input dispatcher of one window, on a terminal of MaxY rows
InitKey == Init /\ maxy = MaxY

NextKey ==
    \/ \E k \in Keys, outcome \in {"ok", "raise", "coro"} : readable(k, outcome)
    \/ \E outcome \in {"ok", "raise"} : task_finish(outcome)

SpecKey == InitKey /\ [][NextKey]_vars

\* the window stack with read_string prompts, on a terminal of MaxY rows
\* that shrinks (a resize evicts Viewports when rows run out)
NextPrompt ==
    \/ \E height \in 1..MaxPopH : read_string(height)
    \/ \E w \in WinIds : done_callback(w)
    \/ \E w \in WinIds : read_string_resume(w)
    \/ \E new \in WinIds : split_window(new)
    \/ \E n \in DeleteArgs : delete_window(n)
    \/ popdown_window
    \/ \E newy \in 1..(maxy - 1) : doresize(newy)
    \/ switch_window(1)

InitPrompt == Init /\ maxy = MaxY

SpecPrompt == InitPrompt /\ [][NextPrompt]_vars

\* Keymap.split applied to each sequence-spec string of SplitInputs
InitSplit ==
    FrontInit /\ maxy = MaxY /\ KeyInit /\ SplitInit /\ MapIdle /\ Idle

NextSplit == split

SpecSplit == InitSplit /\ [][NextSplit]_vars

\* the Keymap operations, on k and on its copy
InitMap ==
    FrontInit /\ maxy = MaxY /\ KeyInit /\ SplitIdle /\ MapInit /\ Idle

NextMap ==
    \/ \E root \in 1..Len(heap), p \in KmPaths, v \in KmValues : setitem(root, p, v)
    \/ \E root \in 1..Len(heap), p \in KmPaths : delitem(root, p)
    \/ \E root \in 1..Len(heap), p \in KmPaths : getitem(root, p)
    \/ copy

SpecMap == InitMap /\ [][NextMap]_vars

\* the Keymap operations given strings with untypable and malformed
\* keystrokes
NextBind ==
    \/ \E p \in BindPaths, v \in KmValues : setitem(KRoot, p, v)
    \/ \E p \in BindPaths : delitem(KRoot, p)
    \/ \E p \in BindPaths : getitem(KRoot, p)

SpecBind == InitMap /\ [][NextBind]_vars

\* Location.shift, from every Location of every stream
InitLoc ==
    /\ FrontInit /\ maxy = MaxY /\ KeyInit /\ SplitIdle /\ MapIdle
    /\ LocInit /\ RenderIdle /\ LineIdle /\ FillIdle

NextLoc == \E delta \in (0 - MaxDelta)..MaxDelta : shift(delta)

SpecLoc == InitLoc /\ [][NextLoc]_vars

\* one renderer redisplaying its window as the cursor moves
InitRender ==
    /\ FrontInit /\ maxy = MaxY /\ KeyInit /\ SplitIdle /\ MapIdle
    /\ chunklines \in Streams /\ loc = Location(1, 0) /\ lhist = <<>>
    /\ RenderInit /\ LineIdle /\ FillIdle

NextRender ==
    \/ redisplay
    \/ \E forward \in BOOLEAN : move_cursor(forward)

SpecRender == InitRender /\ [][NextRender]_vars

\* doline applied to each text, width, remaining width and set of tags
InitLine ==
    /\ FrontInit /\ maxy = MaxY /\ KeyInit /\ SplitIdle /\ MapIdle
    /\ LocIdle /\ RenderIdle /\ LineInit /\ FillIdle

NextLine == doline

SpecLine == InitLine /\ [][NextLine]_vars

\* the Roost backend backfilling
InitFill ==
    /\ FrontInit /\ maxy = MaxY /\ KeyInit /\ SplitIdle /\ MapIdle
    /\ LocIdle /\ RenderIdle /\ LineIdle /\ FillInit

NextFill ==
    \/ new_message
    \/ backfill
    \/ \E t \in TaskIds : do_backfill_enter(t)
    \/ \E t \in TaskIds, n \in 0..MaxChunk, isDone \in BOOLEAN, more \in BOOLEAN :
          do_backfill_chunk(t, n, isDone, more)
    \/ \E t \in TaskIds : do_backfill_error(t)

SpecFill == InitFill /\ [][NextFill]_vars

----------------------------------------------------------------------------
(* Properties of the window stack *)

RECURSIVE SumHeights(_)
SumHeights(ws) == IF ws = <<>> THEN 0 ELSE Head(ws).height + SumHeights(Tail(ws))

Shown(w, ws) == \E i \in 1..Len(ws) : ws[i].window = w

InPopstack(w, ps) == \E i \in 1..Len(ps) : ps[i].window = w

\* C1: in every state reached after initial() by split_window, delete_window,
\* popup_window, popdown_window and doresize calls, whether they return or
\* raise, the Viewports partition the terminal rows: the first starts at row
\* 0, each later one starts where the previous one ends, and the heights sum
\* to maxy.
C1_RegionsPartition ==
    /\ windows # <<>>
    /\ windows[1].y = 0
    /\ \A i \in 2..Len(windows) :
          windows[i].y = windows[i-1].y + windows[i-1].height
    /\ SumHeights(windows) = maxy

\* C2: no window is shown by more than one Viewport of the window stack.
C2_OneViewportPerWindow ==
    \A i, j \in 1..Len(windows) :
        i # j => windows[i].window # windows[j].window

\* C3: in every delete_window, popdown_window and doresize call a window's
\* destroy callback runs exactly once if its Viewport leaves the window stack
\* in that call and not at all if it keeps its Viewport; it never runs a
\* second time.
C3_TeardownExactlyOnce ==
    [][last'.op \in {"delete", "popdown", "resize"} =>
          \A w \in WinIds :
             /\ destroyed'[w] - destroyed[w] =
                   IF Shown(w, windows) /\ ~Shown(w, windows') THEN 1 ELSE 0
             /\ destroyed'[w] <= 1]_vars

\* what split_window makes of the Viewport list ws when the focus is at i
\* and the new window is new
SplitOf(ws, i, new) ==
    LET r == ws[i + 1]
        h == r.height
    IN  SubSeq(ws, 1, i)
        \o << [y |-> r.y, height |-> h \div 2, window |-> r.window],
              [y |-> r.y + (h \div 2), height |-> h - (h \div 2), window |-> new] >>
        \o SubSeq(ws, i + 2, Len(ws))

\* C4: for a focused Viewport of height h >= 2 at index i, split_window(new)
\* replaces it by a Viewport of height h // 2 showing the original window
\* and, right below, one of height h - h // 2 showing new (and it does not
\* raise when the regions partition the terminal); a following
\* delete_window(i + 1) returns and restores the Viewport list and the focus
\* index to what they were before the split.
C4_SplitThenDelete ==
    /\ (scen.kind = "split" /\ scen.healthy) => scen.ok
    /\ (scen.kind = "split" /\ scen.ok) =>
          /\ windows = SplitOf(scen.windows, scen.active, last.win)
          /\ active = scen.active
    /\ scen.kind = "splitdel" =>
          /\ scen.ok
          /\ windows = scen.windows
          /\ active = scen.active

\* a split of a Viewport of odd height, undone by delete_window
C4_Witness ==
    /\ scen.kind = "splitdel" /\ scen.ok
    /\ last.op = "delete"
    /\ windows[scen.active + 1].height = 3

\* C5: delete_window called when the stack holds exactly one Viewport raises
\* and changes nothing: Viewport list, popup stack and focus index are
\* unchanged and no destroy callback runs.
C5_DeleteOnlyWindow ==
    [][(last'.op = "delete" /\ Len(windows) = 1) =>
          /\ ~last'.ok
          /\ UNCHANGED <<windows, popstack, active, destroyed>>]_vars

\* delete_window has just been refused on a stack of one Viewport
C5_Witness ==
    /\ last.op = "delete" /\ ~last.ok
    /\ Len(windows) = 1
    /\ \A w \in WinIds : destroyed[w] = 0

\* C6: from an empty popup stack and a bottom Viewport taller than the
\* requested heights, k >= 1 popup_window calls followed by k popdown_window
\* calls, with no split, delete or resize in between, restore the Viewport
\* list and leave the popup stack empty (and none of the calls raises when
\* the regions partitioned the terminal at the start).
C6_PopupThenPopdown ==
    /\ (scen.kind = "popup" /\ scen.fit /\ scen.healthy) => scen.ok
    /\ (scen.kind = "popup" /\ scen.fit /\ scen.ok /\ scen.downs = scen.ups) =>
          /\ windows = scen.windows
          /\ popstack = <<>>

\* two popups, then two popdowns
C6_Witness ==
    /\ scen.kind = "popup" /\ scen.fit /\ scen.ok
    /\ scen.ups = 2 /\ scen.downs = 2
    /\ last.op = "popdown"

\* C7 as claimed: after popup_window(new, height) returns, the bottom
\* Viewport shows new and has exactly height rows, and the top popup-stack
\* entry is (new, height).
C7_PopupHasHeight ==
    (last.op = "popup" /\ last.ok) =>
        /\ windows # <<>>
        /\ windows[Len(windows)].window = last.win
        /\ windows[Len(windows)].height = last.h
        /\ popstack # <<>>
        /\ popstack[Len(popstack)] = PopEntry(last.win, last.h)

\* C7 amended: after popup_window(new, height) returns, the bottom Viewport
\* shows new and the top popup-stack entry is (new, height); the bottom
\* Viewport has exactly height rows when, before the call, the bottom
\* Viewport was taller than height and did not show the window of the top
\* popup-stack entry; otherwise new replaces the bottom Viewport in place
\* and has that Viewport's height.
C7_PopupHeightOrInPlace ==
    [][(last'.op = "popup" /\ last'.ok) =>
          /\ windows # <<>> /\ windows' # <<>>
          /\ popstack' # <<>>
          /\ popstack'[Len(popstack')] = PopEntry(last'.win, last'.h)
          /\ LET r == windows[Len(windows)]
                 b == windows'[Len(windows')]
                 inplace == \/ r.height <= last'.h
                            \/ /\ popstack # <<>>
                               /\ popstack[Len(popstack)].window = r.window
             IN  /\ b.window = last'.win
                 /\ b.height = IF inplace THEN r.height ELSE last'.h]_vars

\* a popup that replaced the previous popup in place and kept its height
C7_Witness ==
    /\ last.op = "popup" /\ last.ok
    /\ windows[Len(windows)].window = last.win
    /\ windows[Len(windows)].height # last.h

\* C8: after delete_window or a doresize eviction removes a window's
\* Viewport and runs its destroy callback, the popup stack has no entry
\* naming that window.
C8_NoStalePopupEntry ==
    [][\A w \in WinIds :
          (/\ last'.op \in {"delete", "resize"}
           /\ Shown(w, windows) /\ ~Shown(w, windows')
           /\ destroyed'[w] > destroyed[w])
          => ~InPopstack(w, popstack')]_vars

----------------------------------------------------------------------------
(* Properties of the input dispatcher *)

\* the keymaps reachable from km through sub-maps, km included
RECURSIVE MapsFrom(_)
MapsFrom(km) ==
    {km} \cup UNION { MapsFrom(km.map[k]) :
                        k \in {x \in DOMAIN km.map : km.map[x].kind = "keymap"} }

\* k has no entry in the active keymap
NoEntry(km, k) == km.kind # "keymap" \/ k \notin DOMAIN km.map

\* C9: when input_char receives a keystroke that has no entry in
\* active_keymap, no action is invoked and exactly one whine is emitted for
\* that keystroke.
C9_UnboundKeyWhines ==
    [][(nkeys' = nkeys + 1 /\ NoEntry(active_keymap, klast'.k)) =>
          /\ invoked' = invoked
          /\ whines' = whines + 1]_vars

\* C10: after input_char has processed a keystroke that did not resolve to a
\* sub-map, active_keymap is the window's root keymap; so in every reachable
\* state active_keymap is the root keymap or a sub-map reachable from it.
C10_ActiveKeymapIsAKeymap ==
    /\ klast.res # "submap" => active_keymap = WindowKeymap
    /\ active_keymap \in MapsFrom(WindowKeymap)

\* what the keystrokes p resolve to, walking from the slot v
RECURSIVE Resolve(_, _)
Resolve(v, p) ==
    IF p = <<>> THEN v
    ELSE IF v.kind # "keymap" THEN NoneValue
    ELSE Resolve(Lookup(v, Head(p)), Tail(p))

\* C11: when a keystroke resolves to a sub-map, input_char sets active_keymap
\* to that sub-map, invokes no action and emits no whine; while the
\* keystrokes typed from the root are a proper prefix of a bound sequence
\* nothing has been invoked, and when they are a bound multi-key sequence its
\* action has been invoked exactly once, by the last keystroke.
C11_SequenceInvokesOnce ==
    [][nkeys' = nkeys + 1 =>
          /\ (/\ active_keymap.kind = "keymap"
              /\ Lookup(active_keymap, klast'.k).kind = "keymap") =>
                 /\ active_keymap' = Lookup(active_keymap, klast'.k)
                 /\ invoked' = invoked
                 /\ whines' = whines
          /\ LET v == Resolve(WindowKeymap, klast'.path)
             IN  /\ v.kind = "keymap" => klast'.called = 0
                 /\ (v.kind = "action" /\ Len(klast'.path) >= 2) =>
                        /\ klast'.called = 1
                        /\ klast'.name = v.name
                        /\ invoked' = invoked + 1]_vars

\* Control-X Control-C typed from the root has invoked quit
C11_Witness ==
    /\ klast.path = <<"^X", "^C">>
    /\ klast.name = "quit"
    /\ klast.called = 1
    /\ active_keymap = WindowKeymap

\* a bound action raised in this step: in input_char, or in its Task
ActionFailedSync == nkeys' = nkeys + 1 /\ klast'.res = "failed"
ActionFailedInTask == tasks' = tasks - 1 /\ tlast' = "raised"

\* C12 as claimed: an exception raised by a bound action, synchronously or
\* later inside the Task of a suspending action, does not leave input_char or
\* the event loop, produces exactly one whine, and active_keymap is the root
\* keymap afterwards.
C12_FailureLeavesRoot ==
    [][(ActionFailedSync \/ ActionFailedInTask) =>
          /\ ~klast'.escaped
          /\ whines' = whines + 1
          /\ active_keymap' = WindowKeymap]_vars

\* C12 amended: the exception does not leave input_char or the event loop
\* and produces exactly one whine; after a synchronous failure active_keymap
\* is the root keymap, and a failure inside the Task leaves active_keymap as
\* the keystrokes processed since the invocation have set it.
C12_FailureWhinesOnce ==
    [][/\ ActionFailedSync =>
             /\ ~klast'.escaped
             /\ whines' = whines + 1
             /\ active_keymap' = WindowKeymap
       /\ ActionFailedInTask =>
             /\ ~klast'.escaped
             /\ whines' = whines + 1
             /\ active_keymap' = active_keymap]_vars

\* the Task of test_ui failed while a Control-X prefix was pending
C12_Witness ==
    /\ tlast = "raised"
    /\ whines = 1
    /\ active_keymap = WindowKeymap.map["^X"]

\* C13: when 'n' resolves to next_message in the active keymap, pressing 'n'
\* with an item after the cursor sets the cursor to that item, emits no whine
\* and makes readable call redisplay exactly once; pressing 'n' with the
\* cursor on the last item leaves the cursor unchanged and emits exactly one
\* whine.
C13_NextMessage ==
    [][(/\ nkeys' = nkeys + 1
        /\ klast'.k = "n"
        /\ active_keymap.kind = "keymap"
        /\ Lookup(active_keymap, "n") = Leaf("next_message")) =>
          IF cursor < MaxItems
          THEN /\ cursor' = cursor + 1
               /\ whines' = whines
               /\ redisplays' = redisplays + 1
          ELSE /\ cursor' = cursor
               /\ whines' = whines + 1]_vars

\* 'p', 'n', 'n': back on the last item, and the second 'n' has whined
C13_Witness ==
    /\ klast.name = "next_message"
    /\ nkeys = 3 /\ redisplays = 3
    /\ cursor = MaxItems
    /\ whines = 1 /\ invoked = 3

----------------------------------------------------------------------------
(* Properties of Keymap.split *)

\* the first word of the string split was last given has exactly the
\* modifier names mods, in one of the orders given
SplitOf1(modruns) ==
    /\ sres.arg.kind = "spec"
    /\ Head(sres.arg.words).mods \in modruns

\* C18: split turns Control-k, for a character k whose upper-case form lies
\* in '@'..'_', into the character with code upper(k) - 0x40, Control-? into
\* 0x7F, and Control on any other character into (None, None); the remainder
\* is returned unchanged, and compiling "Control-X Control-C" gives the path
\* (0x18, 0x03).
C18_ControlNormalises ==
    /\ (SplitOf1({<<"Control">>, <<"control">>})
        /\ Head(sres.arg.words).kind = "char") =>
          LET c == Head(sres.arg.words).c
              u == Upper(<<c>>)
              rest == Tail(sres.arg.words)
          IN  /\ sres.err = ""
              /\ IF c = QuestionMark
                 THEN sres.key = Chars(<<DEL>>) /\ sres.rest = rest
                 ELSE IF Len(u) = 1 /\ CommercialAt <= u[1] /\ u[1] <= LowLine
                 THEN sres.key = Chars(<< u[1] - CommercialAt >>) /\ sres.rest = rest
                 ELSE sres.key = NoneKey /\ sres.rest = <<>>
    /\ (/\ sres.orig = KeySpec(<< CharWord(<<"Control">>, 88),
                                  CharWord(<<"Control">>, 67) >>)
        /\ keyseqspec = Finished) =>
          path = << Chars(<<24>>), Chars(<<3>>) >>

\* C19: for a printable character k, split("Meta-k") returns ESC and, as
\* remainder, the bracketed Unicode name of k followed by the remainder it
\* was given; compiling "Meta-a" gives the path (ESC, 'a').
C19_MetaPrintable ==
    /\ (SplitOf1({<<"Meta">>})
        /\ Head(sres.arg.words).kind = "char"
        /\ Head(sres.arg.words).c >= SpaceChar
        /\ Head(sres.arg.words).c # DEL) =>
          /\ sres.err = ""
          /\ sres.key = Chars(<<ESC>>)
          /\ sres.rest = << NameWord(<<>>, UnicodeNames[Head(sres.arg.words).c]) >>
                            \o Tail(sres.arg.words)
    /\ (/\ sres.orig = KeySpec(<< CharWord(<<"Meta">>, 97) >>)
        /\ keyseqspec = Finished) =>
          path = << Chars(<<ESC>>), Chars(<<97>>) >>

----------------------------------------------------------------------------
(* Properties of Keymap *)

\* the Keymap object id as a value: its keys, with sub-maps in place of the
\* references to them
RECURSIVE Tree(_, _)
Tree(h, id) ==
    [key \in DOMAIN h[id] |->
        IF h[id][key].kind = "ref" THEN Submap(Tree(h, h[id][key].id))
                                   ELSE h[id][key]]

\* what reading root[q] gives: the exception, or the value or sub-map
Read(h, root, q) ==
    LET r == GetItem(h, root, KeySpec(q))
    IN  [err |-> r.err,
         val |-> IF r.val.kind = "ref" THEN Submap(Tree(h, r.val.id)) ELSE r.val]

\* what root holds at q: a value, a sub-map, or nothing
Held(h, root, q) ==
    IF Read(h, root, q).err = "" THEN Read(h, root, q).val ELSE Missing

\* the proper prefixes of the path q
Prefixes(q) == { SubSeq(q, 1, n) : n \in 1..(Len(q) - 1) }

\* some proper prefix of q is bound to a value
ThroughLeaf(h, root, q) ==
    \E pre \in Prefixes(q) : Read(h, root, pre).val.kind = "value"

\* C14: for a typable path p none of whose proper prefixes is bound to a
\* leaf, root[p] = v returns, reading root[p] afterwards gives v, every
\* intermediate level that was missing is a sub-map holding just the next
\* key, and every other path holds what it held before.
C14_BindThenRead ==
    [][(mlast'.op = "set" /\ ~ThroughLeaf(heap, mlast'.root, mlast'.p)) =>
          LET root == mlast'.root
              p == mlast'.p
          IN  /\ mlast'.err = ""
              /\ Read(heap', root, p) = [err |-> "", val |-> Value(mlast'.v)]
              /\ \A pre \in Prefixes(p) :
                    Read(heap, root, pre).err = "KeyError" =>
                       /\ Read(heap', root, pre).val.kind = "keymap"
                       /\ Cardinality(DOMAIN Read(heap', root, pre).val.map) = 1
              /\ \A q \in KmPaths \ ({p} \cup Prefixes(p)) :
                    Held(heap', root, q) = Held(heap, root, q)]_vars

\* C15: del root[p] for a path p of several keys bound to a value returns;
\* afterwards reading root[p] raises KeyError, the sub-map that held the
\* leaf is still there without that key (empty if it held nothing else), and
\* every other path holds what it held before.
C15_DeleteLeafOnly ==
    [][(/\ mlast'.op = "del"
        /\ Len(mlast'.p) >= 2
        /\ Read(heap, mlast'.root, mlast'.p).val.kind = "value") =>
          LET root == mlast'.root
              p == mlast'.p
              up == SubSeq(p, 1, Len(p) - 1)
              was == Read(heap, root, up).val.map
              is == Read(heap', root, up)
          IN  /\ mlast'.err = ""
              /\ Read(heap', root, p) = [err |-> "KeyError", val |-> Missing]
              /\ is.err = "" /\ is.val.kind = "keymap"
              /\ \E key \in DOMAIN was :
                    /\ DOMAIN is.val.map = DOMAIN was \ {key}
                    /\ \A x \in DOMAIN is.val.map : is.val.map[x] = was[x]
              /\ \A q \in KmPaths \ ({p} \cup Prefixes(p)) :
                    Held(heap', root, q) = Held(heap, root, q)]_vars

\* "a b" was the only entry under "a" and has been deleted: "a" reads as an
\* empty sub-map
C15_Witness ==
    /\ mlast.op = "del" /\ mlast.err = ""
    /\ mlast.p = <<WordA, WordB>>
    /\ Read(heap, mlast.root, <<WordA>>).err = ""
    /\ Read(heap, mlast.root, <<WordA>>).val.kind = "keymap"
    /\ DOMAIN Read(heap, mlast.root, <<WordA>>).val.map = {}
    /\ Read(heap, mlast.root, <<WordA, WordB>>).err = "KeyError"

\* C16: reading, binding and deleting a path that passes through a leaf each
\* raise the "not a keymap" KeyError and leave the keymap unchanged.
C16_NotAKeymap ==
    [][(/\ mlast'.op \in {"get", "set", "del"}
        /\ ThroughLeaf(heap, mlast'.root, mlast'.p)) =>
          /\ mlast'.err = "KeyError: not a keymap"
          /\ heap' = heap]_vars

\* the Keymap objects reachable from object id
RECURSIVE Reach(_, _)
Reach(h, id) ==
    {id} \cup UNION { Reach(h, h[id][key].id) :
                        key \in { x \in DOMAIN h[id] : h[id][x].kind = "ref" } }

\* C17: l = Keymap(k) has the bindings of k and no Keymap object in common
\* with it; every binding or deletion made afterwards through one of them,
\* whether it returns or raises, leaves the other as it was.
C17_CopySharesNothing ==
    [][/\ mlast'.op = "copy" =>
             /\ Tree(heap', lcopy') = Tree(heap, KRoot)
             /\ Tree(heap', KRoot) = Tree(heap, KRoot)
       /\ lcopy' # 0 => Reach(heap', KRoot) \cap Reach(heap', lcopy') = {}
       /\ (mlast'.op \in {"set", "del"} /\ lcopy # 0) =>
             \A other \in {KRoot, lcopy} \ {mlast'.root} :
                Tree(heap', other) = Tree(heap, other)]_vars

\* after the copy a two-key path was bound in one Keymap, below a sub-map
\* both had, and only that one shows it
C17_Witness ==
    /\ lcopy # 0
    /\ mlast.op = "set" /\ mlast.err = ""
    /\ mlast.p = <<WordA, WordA>>
    /\ Read(heap, mlast.root, <<WordA, WordA>>).err = ""
    /\ \E other \in {KRoot, lcopy} \ {mlast.root} :
          /\ Read(heap, other, <<WordA, WordB>>).err = ""
          /\ Read(heap, other, <<WordA, WordA>>).err = "KeyError"

----------------------------------------------------------------------------
(* Properties of untypable and malformed sequence-spec strings *)

\* what split makes of the one keystroke w
SplitWord(w) == Split(KeySpec(<<w>>))

\* every keystroke of p is one split accepts
Grammatical(p) == \A i \in 1..Len(p) : SplitWord(p[i]).err = ""

\* some keystroke of p normalises to (None, None)
HasUntypable(p) == \E i \in 1..Len(p) : SplitWord(p[i]) = Untypable

\* C21: binding a sequence-spec one of whose keystrokes normalises to
\* untypable returns without raising and leaves the keymap as it was.
C21_UntypableBindIsNoOp ==
    [][(/\ mlast'.op = "set"
        /\ Grammatical(mlast'.p)
        /\ HasUntypable(mlast'.p)
        /\ ~ThroughLeaf(heap, mlast'.root, mlast'.p)) =>
          /\ mlast'.err = ""
          /\ Tree(heap', mlast'.root) = Tree(heap, mlast'.root)]_vars

\* the spelling of the canonical modifier a modifier name stands for
Canonical(m) ==
    CASE ModLower(m) = "ctl" -> "Control"
      [] ModLower(m) = "alt" -> "Meta"
      [] OTHER               -> m

\* the word w with each alias replaced by its canonical modifier
CanonicalWord(w) ==
    [w EXCEPT !.mods = [i \in 1..Len(w.mods) |-> Canonical(w.mods[i])]]

\* C22: however a modifier or an alias is capitalised, split gives what it
\* gives for the canonical spelling, and the final assertion that no
\* modifier is left never fails on a string of the grammar.
C22_AliasesAnyCase ==
    (sres.arg.kind = "spec" /\ Head(sres.arg.words).kind # "bad") =>
        /\ sres.err # "AssertionError"
        /\ LET r == Split(KeySpec(<< CanonicalWord(Head(sres.arg.words)) >>
                                  \o Tail(sres.arg.words)))
           IN  sres.key = r.key /\ sres.rest = r.rest /\ sres.err = r.err

\* C23: a string with a keystroke outside the grammar or with an unknown
\* bracketed name raises when it is bound, read or deleted, and the keymap
\* is as it was; an untypable string is not an error.
C23_MalformedRejected ==
    [][(/\ mlast'.op \in {"set", "get", "del"}
        /\ ~Grammatical(mlast'.p)
        /\ ~ThroughLeaf(heap, mlast'.root, mlast'.p)) =>
          /\ mlast'.err = "TypeError"
          /\ Tree(heap', mlast'.root) = Tree(heap, mlast'.root)]_vars

----------------------------------------------------------------------------
(* Properties of Location.shift *)

\* the number of lines of the items before item c
RECURSIVE LinesBefore(_, _)
LinesBefore(cl, c) ==
    IF c <= 1 THEN 0 ELSE LinesBefore(cl, c - 1) + cl[c - 1]

\* the stream as one sequence of lines, numbered from 0: the number of the
\* line l points at, the number of lines, and the Location of line k
Flat(cl, l) == LinesBefore(cl, l.cursor) + l.offset
Total(cl) == LinesBefore(cl, Len(cl) + 1)
AtLine(cl, k) ==
    CHOOSE l \in Locations(cl) : Flat(cl, l) = k

\* the line delta lines from l is a line of the stream
Inside(cl, l, delta) ==
    /\ l \in Locations(cl)
    /\ Flat(cl, l) + delta >= 0
    /\ Flat(cl, l) + delta < Total(cl)

\* C24: shift(delta) from a Location returns the Location of the line delta
\* lines away in the flattened stream whenever that line exists: the anchor
\* is the item holding the line, the offset its index in the item; shift(0)
\* returns the Location it was called on.
C24_ShiftLandsOnLine ==
    lhist # <<>> =>
        LET call == lhist[1]
        IN  /\ Inside(chunklines, call.from, call.delta) =>
                  call.to = AtLine(chunklines,
                                   Flat(chunklines, call.from) + call.delta)
            /\ call.delta = 0 => call.to = call.from

\* C25: shift(n) followed by shift(-n) returns a Location with the anchor
\* and offset of the first, when the line n lines away exists.
C25_ShiftThereAndBack ==
    (/\ Len(lhist) = 2
     /\ lhist[1].delta = 0 - lhist[2].delta
     /\ Inside(chunklines, lhist[2].from, lhist[2].delta)) =>
        lhist[1].to = lhist[2].from

\* C26: shift from a Location whose offset is a line of its anchor returns
\* a Location whose offset is a line of its anchor, clamped shifts included.
C26_OffsetInsideBlock ==
    (lhist # <<>> /\ lhist[1].from \in Locations(chunklines)) =>
        /\ lhist[1].to.offset >= 0
        /\ lhist[1].to.offset < chunklines[lhist[1].to.cursor]

----------------------------------------------------------------------------
(* Properties of TTYRenderer.redisplay *)

\* the paint redisplay made last
LastPaint == rlast.paints[Len(rlast.paints)]

\* C27: every redisplay of a renderer of height >= 1, with the cursor on an
\* item of the stream, ends with the cursor's 'visible' line written to the
\* screen and never reaches the branch that gives up.
C27_CursorLineShown ==
    rlast.op = "redisplay" =>
        /\ ~rlast.gaveup
        /\ LastPaint.visible
        /\ LastPaint.painted

\* C28: whenever redisplay_internal reports the cursor visible, the
\* window's cursor is an item from head's anchor to sill's anchor, both
\* included, sill being the last item that paint touched.
C28_CursorBetweenHeadAndSill ==
    rlast.op = "redisplay" =>
        \A i \in 1..Len(rlast.paints) :
            rlast.paints[i].visible =>
                /\ rlast.paints[i].head.cursor <= wcursor
                /\ wcursor <= rlast.paints[i].sill.cursor

\* a first paint did not find the cursor, and after the reframe a paint
\* reported it visible, below the item head is on
C28_Witness ==
    /\ rlast.op = "redisplay"
    /\ Len(rlast.paints) = 3
    /\ ~rlast.paints[1].visible
    /\ LastPaint.visible
    /\ LastPaint.head.cursor < wcursor
    /\ LastPaint.sill.cursor = wcursor

----------------------------------------------------------------------------
(* Properties of TTYRenderer.doline *)

\* C29: for every text, every width > 0, every remaining width among None,
\* -1, 0 and 1..width, and every set of tags, 'right' and 'fill' included,
\* doline returns its list of (line, remaining) pairs and raises nothing.
C29_DolineTotal ==
    dres.called => dres.err = ""

----------------------------------------------------------------------------
(* Properties of Roost.backfill *)

\* the tasks suspended inside the guarded section
Fetching(bt) == { t \in TaskIds : bt[t] = "fetch" }

\* C30: at most one do_backfill task is inside the guarded fetch section at
\* any time, and a task that finds the guard held returns without
\* fetching, without changing the message list and without clearing the
\* guard.
C30_OneBackfillInFlight ==
    [][/\ Cardinality(Fetching(btasks')) <= 1
       /\ (blast'.op = "enter" /\ blast'.already) =>
             /\ btasks'[blast'.t] = "done"
             /\ fetches' = fetches
             /\ messages' = messages
             /\ backfilling /\ backfilling']_vars

\* a task found the guard held and returned while the task holding it was
\* still waiting for its chunk
C30_Witness ==
    /\ blast.op = "enter" /\ blast.already
    /\ btasks[blast.t] = "done"
    /\ Fetching(btasks) # {}
    /\ backfilling

----------------------------------------------------------------------------
(* Properties of read_string *)

\* C31: the result slot of a read_string prompt is settled at most once;
\* when the prompt's window is torn down before it completes, the waiting
\* action receives the aborted failure; when the prompt completes first,
\* the waiting action receives the text, and the teardown that follows
\* does not settle the slot again.
C31_PromptSettledOnce ==
    \A w \in WinIds :
        /\ settled[w] <= 1
        /\ first[w] = "torn" => futures[w] = "aborted"
        /\ first[w] = "completed" => futures[w] = "result"
        /\ received[w] = "aborted" => first[w] = "torn"
        /\ received[w] = "text" => first[w] = "completed"

\* a prompt completed, its own teardown followed from the popdown, and the
\* waiting action got the text, while another prompt was torn down first
\* and its action got the failure
C31_Witness ==
    \E v, w \in WinIds :
        /\ first[v] = "completed" /\ destroyed[v] >= 1
        /\ received[v] = "text" /\ settled[v] = 1
        /\ first[w] = "torn" /\ received[w] = "aborted" /\ settled[w] = 1

----------------------------------------------------------------------------
(* Properties of the dispatcher while an action runs *)

\* C32 as claimed: when a leaf is resolved, input_char resets active_keymap
\* to the root keymap before the bound action starts, and during the whole
\* invocation, a suspending action's suspension points included,
\* active_keymap is the root keymap.
C32_RootWhileActionRuns ==
    (klast.res \in {"action", "failed", "coro"} \/ tasks > 0) =>
        active_keymap = WindowKeymap

\* C32 amended: when a leaf is resolved, active_keymap is the root keymap
\* when the bound action starts and when input_char returns, whether the
\* action returned, raised or gave a coroutine; the Task of a suspending
\* action does not touch active_keymap, which the keystrokes typed while
\* the Task is suspended move as they always do.
C32_RootWhenActionStarts ==
    [][/\ (/\ nkeys' = nkeys + 1
           /\ active_keymap.kind = "keymap"
           /\ Callable(Lookup(active_keymap, klast'.k))) =>
              /\ active_keymap' = WindowKeymap
              /\ invoked' = invoked + 1
       /\ tasks' < tasks => active_keymap' = active_keymap]_vars

\* Control-X t has started test_ui, which is suspended in its Task
C32_Witness ==
    /\ klast.path = <<"^X", "t">>
    /\ klast.res = "coro"
    /\ klast.name = "test_ui"
    /\ tasks = 1
    /\ active_keymap = WindowKeymap

----------------------------------------------------------------------------
(* Properties of TTYRenderer.reframe *)

\* the reframes the last redisplay made after its first paint, each with
\* its budget and the head it set: reframe(0) or reframe(-1) when the
\* cursor's item is not the one head was on, reframe() when the second
\* paint did not find the cursor either
Reframes ==
    IF rlast.op # "redisplay" \/ Len(rlast.paints) < 3 THEN {}
    ELSE LET p1 == rlast.paints[1]
             p2 == rlast.paints[2]
             p3 == rlast.paints[3]
         IN  (IF wcursor < p1.head.cursor
              THEN {[budget |-> Directed(rheight, 0), head |-> p2.head]}
              ELSE IF wcursor > p1.head.cursor
              THEN {[budget |-> Directed(rheight, 0 - 1), head |-> p2.head]}
              ELSE {})
             \cup
             (IF ~p2.visible
              THEN {[budget |-> Centered(rheight), head |-> p3.head]}
              ELSE {})

\* C33: after reframe computes a backward budget of B lines, the new head
\* lies exactly B rendered lines before the cursor's line when at least B
\* lines precede it in the stream, and is the first line of the stream when
\* fewer do.
C33_HeadBudgetBeforeCursor ==
    \A r \in Reframes :
        LET before == LinesBefore(chunklines, wcursor)
        IN  /\ r.head \in Locations(chunklines)
            /\ before >= r.budget =>
                  Flat(chunklines, r.head) = before - r.budget
            /\ before < r.budget => r.head = Location(1, 0)

----------------------------------------------------------------------------
(* Properties of the lines doline emits *)

\* TTYRenderer.width(s) of a line doline emits
RECURSIVE DisplayWidth(_)
DisplayWidth(s) ==
    IF s = <<>> THEN 0 ELSE cwidth(Head(s)) + DisplayWidth(Tail(s))

\* every character of s is at most width columns wide, a tab counted as the
\* tab stop it can reach
NoWiderThan(s, width) ==
    \A i \in 1..Len(s) :
        IF s[i] = TAB THEN TabStop <= width
        ELSE s[i] >= SpaceChar => cwidth(s[i]) <= width

\* C34: for every text whose characters are each no wider than width, every
\* line doline emits is at most width columns wide, and the first line it
\* emits is at most as wide as the carried-over remaining width when that
\* is positive.
C34_LinesFitWidth ==
    (dres.called /\ NoWiderThan(dargs.s, dargs.width)) =>
        /\ \A i \in 1..Len(dres.res) :
              DisplayWidth(dres.res[i].line) <= dargs.width
        /\ (/\ dres.res # <<>>
            /\ dargs.remaining # PyNone
            /\ dargs.remaining.n > 0) =>
              DisplayWidth(dres.res[1].line) <= dargs.remaining.n

----------------------------------------------------------------------------
(* Further properties of the window stack *)

\* C35: after any sequence of split_window, delete_window, popup_window,
\* popdown_window and doresize calls, every Viewport of the window stack
\* has a height of at least 1.
C35_ViewportsHaveHeight ==
    \A i \in 1..Len(windows) : windows[i].height >= 1

\* C36: after initial() and any sequence of split_window, delete_window(n)
\* for a valid n, popup_window, popdown_window, switch_window and doresize
\* calls, whether a call returns or raises, the Viewport list is not empty
\* and the focus index satisfies 0 <= active < number of Viewports.
C36_FocusOnAViewport ==
    /\ windows # <<>>
    /\ 0 <= active
    /\ active < Len(windows)

\* C37: whenever the popup stack is not empty, the bottom Viewport shows
\* the window the top popup-stack entry names, so that popdown_window
\* removes the Viewport of the window whose teardown it invokes and of no
\* other window.
C37_BottomIsTopPopup ==
    popstack # <<>> =>
        /\ windows # <<>>
        /\ windows[Len(windows)].window = popstack[Len(popstack)].window

----------------------------------------------------------------------------
(* Further properties of TTYRenderer.redisplay_internal *)

\* C38: redisplay_internal reports the cursor visible only if the first
\* line of the segment tagged 'visible' was written on a row of the
\* Viewport; it does not report visible when that line is among the
\* head.offset lines skipped above the region.
C38_VisibleMeansPainted ==
    rlast.op = "redisplay" =>
        \A i \in 1..Len(rlast.paints) :
            rlast.paints[i].visible => rlast.paints[i].painted

----------------------------------------------------------------------------
(* Further properties of Roost.backfill *)

\* C39: whenever no do_backfill task is inside the guarded section, the
\* backfilling flag is False: the guard is released on every way a guarded
\* backfill can end, a failing fetch and an empty chunk included.
C39_GuardFreeWhenIdle ==
    Fetching(btasks) = {} => ~backfilling

\* C40: a continuation that a running do_backfill schedules from inside its
\* guarded section is not collapsed by its parent's guard: the guard is
\* free when the parent has ended, and when no other backfill request has
\* been pending since, the continuation takes the guard and makes its
\* fetch.
C40_ContinuationFetches ==
    [][/\ \A c \in TaskIds :
             (cont[c] = "no" /\ cont'[c] # "no") => ~backfilling'
       /\ (blast'.op = "enter" /\ cont[blast'.t] = "alone") =>
             /\ ~blast'.already
             /\ backfilling'
             /\ btasks'[blast'.t] = "fetch"
             /\ fetches' = fetches + 1]_vars

\* a continuation scheduled by the first task has taken the guard and is
\* waiting for its chunk, in front of the messages its parent fetched
C40_Witness ==
    \E c \in TaskIds :
        /\ blast.op = "enter" /\ blast.t = c
        /\ cont[c] = "alone"
        /\ btasks[c] = "fetch"
        /\ backfilling
        /\ fetches = 2
        /\ messages # <<>>

====
